---- MODULE Spec2Model ----
(***************************************************************************)
(* Command authorization engine of payneio/bots:                           *)
(*   bots/command/permissions.py  quote tracker, compound splitter,        *)
(*                                component normalizer, rule matcher,      *)
(*                                permission evaluator                     *)
(*   bots/command/executor.py     command executor                         *)
(*   bots/permissions.py          approval cache and its pattern evaluator *)
(*   bot/utils.py                 the normalizer the approval cache calls  *)
(*                                and the older validate_command           *)
(*   bot/command.py               the older CommandExecutor validator      *)
(*   bots/bot.py                  the agent run that calls the executor    *)
(*                                                                         *)
(* A Python str is modelled as a sequence of one-character strings, so     *)
(* that the character-level scans of the source are translated as written. *)
(* Positions are 0-based as in Python; sequence indices are position + 1.  *)
(***************************************************************************)
EXTENDS Integers, Sequences, FiniteSets, TLC

VARIABLES
    allow,              \* CommandPermissions.allow
    deny,               \* CommandPermissions.deny
    ask_if_unspecified, \* CommandPermissions.ask_if_unspecified
    command,            \* the command string of the call in progress
    auto_approve,       \* execute_command's auto_approve argument
    pc,                 \* position of the call in progress ("idle" between calls)
    action,             \* value returned by permit_command ("none" before the call)
    result,             \* dictionary returned by execute_command ("none" before it returns)
    child,              \* the child process of the call: "none", "running", "exited"
    prompts,            \* number of Confirm.ask prompts shown during the call
    answer,             \* what Confirm.ask returned ("none" when it was not shown)
    ncalls,             \* number of execute_command calls made so far
    decision,           \* value of a direct permit_command(command) call ("none" before it)
    components,         \* value of a direct split_command(command) call ("none" before it)
    npieces,            \* number of pieces the caller has put into command
    normalized_components, \* value of a direct normalize_command(command) call ("none" before it)
    pos,                \* the position argument of a direct _is_in_quotes call
    in_quotes,          \* value of a direct _is_in_quotes(command, pos) call
    rule_string,        \* the rule argument of a direct matches_rule call
    matched,            \* value of a direct matches_rule(command, rule_string) call
    approved_commands,  \* bots/permissions.py CommandPermissions._approved_commands
    verdict,            \* value of a direct validate_command(command) call ("none" before it)
    process,            \* what the child of the call has answered: returncode, stdout and stderr bytes
    tasks               \* the execute_command calls the agent has in flight on one executor

vars == <<allow, deny, ask_if_unspecified, command, auto_approve, pc, action,
          result, child, prompts, answer, ncalls, decision, components, npieces,
          normalized_components, pos, in_quotes, rule_string, matched,
          approved_commands, verdict, process, tasks>>

-----------------------------------------------------------------------------
(* Python str helpers *)

\* characters str.split(), str.strip() and shlex treat as whitespace
Whitespace == {" ", "\t", "\n", "\r"}

\* the character class [a-zA-Z] of the short-flag pattern
Letters ==
    {"a","b","c","d","e","f","g","h","i","j","k","l","m",
     "n","o","p","q","r","s","t","u","v","w","x","y","z",
     "A","B","C","D","E","F","G","H","I","J","K","L","M",
     "N","O","P","Q","R","S","T","U","V","W","X","Y","Z"}

RECURSIVE lstrip(_)
lstrip(s) ==
    IF s # <<>> /\ Head(s) \in Whitespace THEN lstrip(Tail(s)) ELSE s

RECURSIVE rstrip(_)
rstrip(s) ==
    IF s # <<>> /\ s[Len(s)] \in Whitespace
    THEN rstrip(SubSeq(s, 1, Len(s) - 1))
    ELSE s

\* str.strip()
strip(s) == rstrip(lstrip(s))

RECURSIVE word_len(_)
word_len(s) ==
    IF s = <<>> \/ Head(s) \in Whitespace THEN 0 ELSE 1 + word_len(Tail(s))

\* str.split() with no separator: the whitespace-separated words
RECURSIVE str_split(_)
str_split(s) ==
    LET t == lstrip(s) IN
    IF t = <<>> THEN <<>>
    ELSE LET n == word_len(t) IN
         <<SubSeq(t, 1, n)>> \o str_split(SubSeq(t, n + 1, Len(t)))

\* s[i : i + len(sub)] == sub, i a 0-based position
slice_eq(s, i, sub) ==
    /\ i + Len(sub) <= Len(s)
    /\ SubSeq(s, i + 1, i + Len(sub)) = sub

\* s.find(sub): lowest 0-based position of sub in s, -1 when absent
RECURSIVE find_from(_, _, _)
find_from(s, sub, i) ==
    IF i + Len(sub) > Len(s) THEN -1
    ELSE IF slice_eq(s, i, sub) THEN i
    ELSE find_from(s, sub, i + 1)

find(s, sub) == find_from(s, sub, 0)

\* sub in s
contains(s, sub) == find(s, sub) # -1

\* s.startswith(prefix)
startswith(s, prefix) == slice_eq(s, 0, prefix)

\* " ".join(words)
RECURSIVE join_words(_)
join_words(words) ==
    IF words = <<>> THEN <<>>
    ELSE IF Len(words) = 1 THEN words[1]
    ELSE words[1] \o <<" ">> \o join_words(Tail(words))

-----------------------------------------------------------------------------
(* Quote Tracker: _is_in_quotes *)

RECURSIVE is_in_quotes_scan(_, _, _, _, _, _)
is_in_quotes_scan(string, position, i, in_single_quotes, in_double_quotes, escaped) ==
    IF i >= Len(string) \/ i >= position
    THEN in_single_quotes \/ in_double_quotes
    ELSE LET char == string[i + 1] IN
         IF char = "\\" /\ ~escaped
         THEN is_in_quotes_scan(string, position, i + 1,
                                in_single_quotes, in_double_quotes, TRUE)
         ELSE IF char = "\"" /\ ~escaped /\ ~in_single_quotes
         THEN is_in_quotes_scan(string, position, i + 1,
                                in_single_quotes, ~in_double_quotes, FALSE)
         ELSE IF char = "'" /\ ~escaped /\ ~in_double_quotes
         THEN is_in_quotes_scan(string, position, i + 1,
                                ~in_single_quotes, in_double_quotes, FALSE)
         ELSE is_in_quotes_scan(string, position, i + 1,
                                in_single_quotes, in_double_quotes, FALSE)

\* the scan stopping after the character at position instead of before it
is_in_quotes_through_position(string, position) ==
    is_in_quotes_scan(string, position + 1, 0, FALSE, FALSE, FALSE)

is_in_quotes(string, position) ==
    is_in_quotes_scan(string, position, 0, FALSE, FALSE, FALSE)

-----------------------------------------------------------------------------
(* Compound Splitter: split_command *)

\* the operator list with the longer operators tested first
compound_operators_longest_first == << <<"|", "|">>, <<"&", "&">>, <<"|">>, <<";">> >>

compound_operators == << <<"|">>, <<"&", "&">>, <<"|", "|">>, <<";">> >>

\* for op in compound_operators: index of the first operator found at
\* position i, 0 if none
RECURSIVE operator_from(_, _, _)
operator_from(cmd, i, k) ==
    IF k > Len(compound_operators) THEN 0
    ELSE IF slice_eq(cmd, i, compound_operators[k]) THEN k
    ELSE operator_from(cmd, i, k + 1)

operator_at(cmd, i) == operator_from(cmd, i, 1)

\* The while loop of split_command.  st carries the local variables of the
\* function; st.cuts is the set of positions i at which an operator was
\* matched (a record of the loop's control flow, not a variable of the code).
RECURSIVE split_loop(_, _)
split_loop(cmd, st) ==
    IF st.i >= Len(cmd) THEN st
    ELSE
    LET char == cmd[st.i + 1] IN
    IF char = "\\" /\ ~st.escaped
    THEN split_loop(cmd, [st EXCEPT !.escaped = TRUE,
                                    !.current_command = @ \o <<char>>,
                                    !.i = @ + 1])
    ELSE
    LET is_quote == char \in {"\"", "'"} /\ ~st.escaped
        opens    == is_quote /\ ~st.in_quotes
        closes   == is_quote /\ st.in_quotes /\ char = st.quote_char
        in_q     == IF opens THEN TRUE ELSE IF closes THEN FALSE ELSE st.in_quotes
        q_char   == IF opens THEN char ELSE IF closes THEN "None" ELSE st.quote_char
        k        == operator_at(cmd, st.i)
    IN
    IF in_q
    THEN split_loop(cmd, [st EXCEPT !.in_quotes = in_q, !.quote_char = q_char,
                                    !.current_command = @ \o <<char>>,
                                    !.escaped = FALSE,
                                    !.i = @ + 1])
    ELSE IF k # 0
    THEN split_loop(cmd, [st EXCEPT
            !.in_quotes = in_q, !.quote_char = q_char,
            !.components =
                IF strip(st.current_command) # <<>>
                THEN Append(@, [raw_command |-> strip(st.current_command),
                                operator |-> compound_operators[k]])
                ELSE @,
            !.current_command = <<>>,
            !.cuts = @ \cup {st.i},
            !.i = @ + Len(compound_operators[k])])
    ELSE split_loop(cmd, [st EXCEPT !.in_quotes = in_q, !.quote_char = q_char,
                                    !.current_command = @ \o <<char>>,
                                    !.escaped = FALSE,
                                    !.i = @ + 1])

split_start ==
    [components |-> <<>>, current_command |-> <<>>, in_quotes |-> FALSE,
     quote_char |-> "None", escaped |-> FALSE, i |-> 0, cuts |-> {}]

\* operator None of the last component
NoOperator == <<>>

split_command(cmd) ==
    LET st == split_loop(cmd, split_start) IN
    IF strip(st.current_command) # <<>>
    THEN Append(st.components,
                [raw_command |-> strip(st.current_command), operator |-> NoOperator])
    ELSE st.components

\* the positions at which split_command matched an operator
split_cuts(cmd) == split_loop(cmd, split_start).cuts

-----------------------------------------------------------------------------
(* shlex.split(s): posix mode, whitespace_split, no comment characters *)

\* The read_token state machine of the standard library, run over the whole
\* string.  state is " " (between tokens), "a" (inside a word), a quote
\* character or the escape character; the result is the token list, or
\* ok = FALSE where shlex raises ValueError ("No closing quotation",
\* "No escaped character").
RECURSIVE shlex_scan(_, _, _)
shlex_scan(s, i, st) ==
    IF i >= Len(s)
    THEN IF st.state \in {"\"", "'", "\\"}
         THEN [ok |-> FALSE, tokens |-> st.tokens]
         ELSE IF st.state = "a" /\ (st.token # <<>> \/ st.quoted)
         THEN [ok |-> TRUE, tokens |-> Append(st.tokens, st.token)]
         ELSE [ok |-> TRUE, tokens |-> st.tokens]
    ELSE
    LET nextchar == s[i + 1] IN
    IF st.state = " "
    THEN IF nextchar \in Whitespace
         THEN shlex_scan(s, i + 1, st)
         ELSE IF nextchar = "\\"
         THEN shlex_scan(s, i + 1, [st EXCEPT !.escapedstate = "a", !.state = nextchar])
         ELSE IF nextchar \in {"\"", "'"}
         THEN shlex_scan(s, i + 1, [st EXCEPT !.state = nextchar])
         ELSE shlex_scan(s, i + 1, [st EXCEPT !.token = <<nextchar>>, !.state = "a"])
    ELSE IF st.state \in {"\"", "'"}
    THEN IF nextchar = st.state
         THEN shlex_scan(s, i + 1, [st EXCEPT !.quoted = TRUE, !.state = "a"])
         ELSE IF nextchar = "\\" /\ st.state = "\""
         THEN shlex_scan(s, i + 1, [st EXCEPT !.quoted = TRUE,
                                              !.escapedstate = st.state,
                                              !.state = nextchar])
         ELSE shlex_scan(s, i + 1, [st EXCEPT !.quoted = TRUE,
                                              !.token = @ \o <<nextchar>>])
    ELSE IF st.state = "\\"
    THEN shlex_scan(s, i + 1,
            [st EXCEPT !.token =
                          IF /\ st.escapedstate \in {"\"", "'"}
                             /\ nextchar # st.state
                             /\ nextchar # st.escapedstate
                          THEN @ \o <<st.state, nextchar>>
                          ELSE @ \o <<nextchar>>,
                       !.state = st.escapedstate])
    ELSE \* st.state = "a"
         IF nextchar \in Whitespace
         THEN IF st.token # <<>> \/ st.quoted
              THEN shlex_scan(s, i + 1, [st EXCEPT !.tokens = Append(@, st.token),
                                                   !.token = <<>>,
                                                   !.quoted = FALSE,
                                                   !.state = " "])
              ELSE shlex_scan(s, i + 1, [st EXCEPT !.state = " "])
         ELSE IF nextchar \in {"\"", "'"}
         THEN shlex_scan(s, i + 1, [st EXCEPT !.state = nextchar])
         ELSE IF nextchar = "\\"
         THEN shlex_scan(s, i + 1, [st EXCEPT !.escapedstate = "a", !.state = nextchar])
         ELSE shlex_scan(s, i + 1, [st EXCEPT !.token = @ \o <<nextchar>>])

shlex_split(s) ==
    shlex_scan(s, 0, [state |-> " ", escapedstate |-> " ", token |-> <<>>,
                      quoted |-> FALSE, tokens |-> <<>>])

-----------------------------------------------------------------------------
(* Component Normalizer: normalize_command *)

redirection_operators ==
    << <<">">>, <<">", ">">>, <<"<">>, <<"<", "<">>, <<"2", ">">>,
       <<"2", ">", ">">>, <<"&", ">">>, <<"&", ">", ">">> >>

bash == <<"b", "a", "s", "h">>
bash_c_flags == { <<"-", "c">>, <<"-", "l", "c">> }

\* the loop of lines 165-170 with the quote test left out
redirection_hit_ignoring_quotes(raw_cmd, redirection) ==
    contains(raw_cmd, redirection)

\* a redirection operator the loop of lines 165-170 acts on
redirection_hit(raw_cmd, redirection) ==
    /\ contains(raw_cmd, redirection)
    /\ ~is_in_quotes(raw_cmd, find(raw_cmd, redirection))

\* for redirection in redirection_operators: index of the first operator the
\* loop acts on (where it breaks), 0 if none
RECURSIVE redirection_from(_, _)
redirection_from(raw_cmd, k) ==
    IF k > Len(redirection_operators) THEN 0
    ELSE IF redirection_hit(raw_cmd, redirection_operators[k]) THEN k
    ELSE redirection_from(raw_cmd, k + 1)

first_redirection(raw_cmd) == redirection_from(raw_cmd, 1)

\* raw_cmd after the redirection loop broke at operator k:
\* raw_cmd.split(redirection, 1)[0].strip()
strip_redirection(raw_cmd, k) ==
    IF k = 0 THEN raw_cmd
    ELSE strip(SubSeq(raw_cmd, 1, find(raw_cmd, redirection_operators[k])))

\* the Command objects (zero or one) that one component of split_command yields
normalize_component(component) ==
    LET k == first_redirection(component.raw_command)
        has_redirection == k # 0
        raw_cmd == strip_redirection(component.raw_command, k)
        lexed   == shlex_split(raw_cmd)
        parsed  == lexed.tokens
    IN
    IF ~lexed.ok
    THEN IF str_split(raw_cmd) # <<>>
         THEN << [command |-> raw_cmd, has_redirection |-> has_redirection,
                  via_bash |-> FALSE, invalid |-> TRUE] >>
         ELSE <<>>
    ELSE IF parsed = <<>> THEN <<>>
    ELSE IF parsed[1] = bash /\ Len(parsed) >= 3 /\ parsed[2] \in bash_c_flags
    THEN << [command |-> parsed[3], has_redirection |-> has_redirection,
             via_bash |-> TRUE, invalid |-> FALSE] >>
    ELSE << [command |-> raw_cmd, has_redirection |-> has_redirection,
             via_bash |-> FALSE, invalid |-> FALSE] >>

RECURSIVE normalize_components(_)
normalize_components(comps) ==
    IF comps = <<>> THEN <<>>
    ELSE normalize_component(Head(comps)) \o normalize_components(Tail(comps))

normalize_command(cmd) == normalize_components(split_command(cmd))

-----------------------------------------------------------------------------
(* Rule Matcher: matches_rule *)

\* rule.split(":", 1) when ":" is in the rule
rule_command_of(rule) ==
    IF contains(rule, <<":">>) THEN SubSeq(rule, 1, find(rule, <<":">>)) ELSE rule

\* None (no ":" in the rule) is modelled by the empty filter: the code tests
\* only "not rule_filter", which None and "" both satisfy
rule_filter_of(rule) ==
    IF contains(rule, <<":">>)
    THEN SubSeq(rule, find(rule, <<":">>) + 2, Len(rule))
    ELSE <<>>

\* the loop of lines 235-238: every rule part equals the next command part
RECURSIVE parts_match(_, _)
parts_match(command_parts, rule_parts) ==
    IF rule_parts = <<>> THEN TRUE
    ELSE IF command_parts = <<>> \/ Head(rule_parts) # Head(command_parts) THEN FALSE
    ELSE parts_match(Tail(command_parts), Tail(rule_parts))

\* re.compile(rf"(?<!\S)-[a-zA-Z]*{re.escape(flag)}[a-zA-Z]*").search(command_string)
flag_pattern_search(command_string, flag) ==
    \E p \in 1..Len(command_string) :
        /\ command_string[p] = "-"
        /\ (p = 1 \/ command_string[p - 1] \in Whitespace)
        /\ \E q \in (p + 1)..Len(command_string) :
              /\ command_string[q] = flag
              /\ \A r \in (p + 1)..(q - 1) : command_string[r] \in Letters

\* matches_rule with the loop of lines 255-259 satisfied by any one flag
matches_rule_any_flag(command_string, rule) ==
    LET rule_command == rule_command_of(rule)
        rule_filter  == rule_filter_of(rule)
        is_short == startswith(rule_filter, <<"-">>) /\ ~startswith(rule_filter, <<"-", "-">>)
        is_long  == startswith(rule_filter, <<"-", "-">>)
        flags    == SelectSeq(rule_filter, LAMBDA c : c # "-")
        cmd_parts == str_split(command_string)
    IN
    IF rule_command = <<>> THEN FALSE
    ELSE IF ~parts_match(str_split(command_string), str_split(rule_command)) THEN FALSE
    ELSE IF rule_filter = <<>> THEN TRUE
    ELSE IF is_short
    THEN /\ flags # <<>>
         /\ \E k \in 1..Len(flags) : flag_pattern_search(command_string, flags[k])
    ELSE IF is_long
    THEN \E k \in 1..Len(cmd_parts) : cmd_parts[k] = rule_filter
    ELSE FALSE

matches_rule(command_string, rule) ==
    LET rule_command == rule_command_of(rule)
        rule_filter  == rule_filter_of(rule)
        is_short == startswith(rule_filter, <<"-">>) /\ ~startswith(rule_filter, <<"-", "-">>)
        is_long  == startswith(rule_filter, <<"-", "-">>)
        flags    == SelectSeq(rule_filter, LAMBDA c : c # "-")
        cmd_parts == str_split(command_string)
    IN
    IF rule_command = <<>> THEN FALSE
    ELSE IF ~parts_match(str_split(command_string), str_split(rule_command)) THEN FALSE
    ELSE IF rule_filter = <<>> THEN TRUE
    ELSE IF is_short
    THEN /\ flags # <<>>
         /\ \A k \in 1..Len(flags) : flag_pattern_search(command_string, flags[k])
    ELSE IF is_long
    THEN \E k \in 1..Len(cmd_parts) : cmd_parts[k] = rule_filter
    ELSE FALSE

-----------------------------------------------------------------------------
(* Permission Evaluator: CommandPermissions.permit_command *)

DENY == "DENY"
APPROVE == "APPROVE"
ASK == "ASK"
\* rule.split()[0] and component.command.split()[0] raise IndexError on a
\* string without words; permit_command does not catch it
IndexError == "IndexError"

\* some rule.split()[0] of the list comprehension raises
rule_base_raises(rules) == \E k \in 1..Len(rules) : str_split(rules[k]) = <<>>

\* [rule for rule in rules if rule.split()[0] == base_cmd] has a rule that matches
some_rule_matches(rules, base_cmd, component) ==
    \E k \in 1..Len(rules) :
        /\ str_split(rules[k])[1] = base_cmd
        /\ matches_rule(component.command, rules[k])

\* component_vote with line 315 appending APPROVE whether or not a rule matched
component_vote_unmatched_approves(self, component) ==
    IF component.command # <<>> /\ str_split(component.command) = <<>>
    THEN IndexError
    ELSE
    LET base_cmd == IF component.command # <<>>
                    THEN str_split(component.command)[1]
                    ELSE <<>>
    IN
    IF component.invalid THEN DENY
    ELSE IF rule_base_raises(self.deny) THEN IndexError
    ELSE IF some_rule_matches(self.deny, base_cmd, component) THEN DENY
    ELSE IF rule_base_raises(self.allow) THEN IndexError
    ELSE APPROVE

\* One iteration of the loop over the components: DENY where the loop returns
\* DENY, IndexError where it raises, else the Permission appended to results.
component_vote(self, component) ==
    IF component.command # <<>> /\ str_split(component.command) = <<>>
    THEN IndexError
    ELSE
    LET base_cmd == IF component.command # <<>>
                    THEN str_split(component.command)[1]
                    ELSE <<>>
    IN
    IF component.invalid THEN DENY
    ELSE IF rule_base_raises(self.deny) THEN IndexError
    ELSE IF some_rule_matches(self.deny, base_cmd, component) THEN DENY
    ELSE IF rule_base_raises(self.allow) THEN IndexError
    ELSE IF some_rule_matches(self.allow, base_cmd, component) THEN APPROVE
    ELSE ASK

RECURSIVE permit_loop(_, _, _)
permit_loop(self, comps, results) ==
    IF comps = <<>>
    THEN IF \E k \in 1..Len(results) : results[k] = ASK THEN ASK ELSE APPROVE
    ELSE LET vote == component_vote(self, Head(comps)) IN
         IF vote \in {DENY, IndexError} THEN vote
         ELSE permit_loop(self, Tail(comps), Append(results, vote))

\* self is the CommandPermissions object: [allow, deny, ask_if_unspecified]
permit_command(self, cmd) ==
    LET comps == normalize_command(cmd) IN
    IF comps = <<>> THEN ASK
    ELSE permit_loop(self, comps, <<>>)

-----------------------------------------------------------------------------
(* bot/utils.py: normalize_command with command / args dictionaries, the    *)
(* normalizer the cache evaluator of bots/permissions.py calls.  Its         *)
(* _is_in_quotes, split_command and redirection loop are the ones modelled   *)
(* above, character for character.                                           *)

utils_normalize_component(component) ==
    LET k == first_redirection(component.raw_command)
        has_redirection == k # 0
        raw_cmd == strip_redirection(component.raw_command, k)
        lexed   == shlex_split(raw_cmd)
        parsed  == lexed.tokens
        parts   == str_split(raw_cmd)
    IN
    IF ~lexed.ok
    THEN IF parts # <<>>
         THEN << [command |-> parts[1], args |-> Tail(parts),
                  has_redirection |-> has_redirection] >>
         ELSE <<>>
    ELSE IF parsed = <<>> THEN <<>>
    ELSE IF parsed[1] = bash /\ Len(parsed) >= 3 /\ parsed[2] \in bash_c_flags
    THEN LET script == shlex_split(parsed[3]) IN
         IF script.ok /\ script.tokens # <<>>
         THEN << [command |-> script.tokens[1], args |-> Tail(script.tokens),
                  via_bash |-> TRUE, has_redirection |-> has_redirection] >>
         ELSE << [command |-> bash, args |-> Tail(parsed),
                  has_redirection |-> has_redirection] >>
    ELSE << [command |-> parsed[1], args |-> Tail(parsed),
             has_redirection |-> has_redirection] >>

RECURSIVE utils_normalize_components(_)
utils_normalize_components(comps) ==
    IF comps = <<>> THEN <<>>
    ELSE utils_normalize_component(Head(comps))
            \o utils_normalize_components(Tail(comps))

utils_normalize_command(cmd) == utils_normalize_components(split_command(cmd))

-----------------------------------------------------------------------------
(* fnmatch.fnmatch(name, pat) of the standard library on POSIX: "*" matches  *)
(* any run of characters, "?" one character, "[seq]" one character of seq,   *)
(* "[!seq]" one character not in seq, a "[" without closing "]" and every    *)
(* other character match themselves.  Character ranges (a-z) are not         *)
(* modelled; no pattern of the model has a "-" between brackets.             *)

\* fnmatch.translate: the index of the "]" closing the "[" at index j of pat
\* (1-based), 0 if there is none
RECURSIVE bracket_scan(_, _)
bracket_scan(pat, j) ==
    IF j > Len(pat) THEN 0
    ELSE IF pat[j] = "]" THEN j
    ELSE bracket_scan(pat, j + 1)

bracket_close(pat, j) ==
    LET j1 == IF j + 1 <= Len(pat) /\ pat[j + 1] = "!" THEN j + 2 ELSE j + 1
        j2 == IF j1 <= Len(pat) /\ pat[j1] = "]" THEN j1 + 1 ELSE j1
    IN bracket_scan(pat, j2)

\* the character c is matched by the class pat[j..close]
bracket_matches(c, pat, j, close) ==
    LET negated == pat[j + 1] = "!"
        first == IF negated THEN j + 2 ELSE j + 1
        member == \E m \in first..(close - 1) : pat[m] = c
    IN IF negated THEN ~member ELSE member

RECURSIVE fnmatch_from(_, _, _, _)
fnmatch_from(name, pat, i, j) ==
    IF j > Len(pat) THEN i > Len(name)
    ELSE IF pat[j] = "*"
    THEN \E k \in i..(Len(name) + 1) : fnmatch_from(name, pat, k, j + 1)
    ELSE IF pat[j] = "?"
    THEN i <= Len(name) /\ fnmatch_from(name, pat, i + 1, j + 1)
    ELSE IF pat[j] = "[" /\ bracket_close(pat, j) # 0
    THEN /\ i <= Len(name)
         /\ bracket_matches(name[i], pat, j, bracket_close(pat, j))
         /\ fnmatch_from(name, pat, i + 1, bracket_close(pat, j) + 1)
    ELSE /\ i <= Len(name)
         /\ name[i] = pat[j]
         /\ fnmatch_from(name, pat, i + 1, j + 1)

fnmatch(name, pat) == fnmatch_from(name, pat, 1, 1)

-----------------------------------------------------------------------------
(* Approval Cache: CommandPermissions of bots/permissions.py                  *)
(* this is [allow, deny, ask_if_unspecified, approved_commands]; the         *)
(* dictionary _approved_commands is a function from command keys to BOOLEAN  *)

EXECUTE == "EXECUTE"

\* _parse_pattern: args_pattern is None when has_args is FALSE
parse_pattern(pattern) ==
    IF ~contains(pattern, <<":">>)
    THEN [command |-> pattern, has_args |-> FALSE, args_pattern |-> <<>>]
    ELSE [command |-> SubSeq(pattern, 1, find(pattern, <<":">>)),
          has_args |-> TRUE,
          args_pattern |-> SubSeq(pattern, find(pattern, <<":">>) + 2, Len(pattern))]

\* f"{base_cmd}:{args_str}"
command_key(base_cmd, args_str) == base_cmd \o <<":">> \o args_str

\* one iteration of the pattern loops of lines 90-107 and 114-131 that ends
\* in a match
pattern_applies(pattern, base_cmd, args_str) ==
    LET parsed == parse_pattern(pattern) IN
    /\ fnmatch(base_cmd, parsed.command)
    /\ \/ ~parsed.has_args
       \/ pattern = base_cmd
       \/ fnmatch(args_str, parsed.args_pattern)

unspecified(this) == IF this.ask_if_unspecified THEN ASK ELSE DENY

\* component_result with the deny and allow patterns consulted before the
\* session cache
component_result_rules_first(this, component) ==
    LET base_cmd == component.command
        args_str == join_words(component.args)
        key == command_key(base_cmd, args_str)
    IN
    IF base_cmd = <<>> THEN "skip"
    ELSE IF \E k \in 1..Len(this.deny) : pattern_applies(this.deny[k], base_cmd, args_str)
    THEN DENY
    ELSE IF \E k \in 1..Len(this.allow) : pattern_applies(this.allow[k], base_cmd, args_str)
    THEN EXECUTE
    ELSE IF key \in DOMAIN this.approved_commands
    THEN IF this.approved_commands[key] THEN EXECUTE ELSE DENY
    ELSE unspecified(this)

\* the result one component appends to component_results; "skip" for the
\* components the loop passes over
component_result(this, component) ==
    LET base_cmd == component.command
        args_str == join_words(component.args)
        key == command_key(base_cmd, args_str)
    IN
    IF base_cmd = <<>> THEN "skip"
    ELSE IF key \in DOMAIN this.approved_commands
    THEN IF this.approved_commands[key] THEN EXECUTE ELSE DENY
    ELSE IF \E k \in 1..Len(this.deny) : pattern_applies(this.deny[k], base_cmd, args_str)
    THEN DENY
    ELSE IF \E k \in 1..Len(this.allow) : pattern_applies(this.allow[k], base_cmd, args_str)
    THEN EXECUTE
    ELSE unspecified(this)

validate_command(this, cmd) ==
    LET comps == utils_normalize_command(cmd)
        component_results ==
            { component_result(this, comps[k]) : k \in 1..Len(comps) } \ {"skip"}
    IN
    IF comps = <<>> THEN unspecified(this)
    ELSE IF component_results = {} THEN unspecified(this)
    ELSE IF DENY \in component_results THEN DENY
    ELSE IF ASK \in component_results THEN ASK
    ELSE EXECUTE

\* self._approved_commands[command_key] = value
cache_put(cache, key, value) ==
    [k \in (DOMAIN cache) \cup {key} |-> IF k = key THEN value ELSE cache[k]]

\* the rule approve_command and deny_command persist for a component
persisted_pattern(base_cmd, args_str) ==
    IF args_str # <<>> THEN base_cmd \o <<":">> \o args_str ELSE base_cmd

\* if pattern not in rules: rules.append(pattern)
append_new(rules, pattern) ==
    IF \E k \in 1..Len(rules) : rules[k] = pattern THEN rules
    ELSE Append(rules, pattern)

\* the loop of approve_command over the components still to process
RECURSIVE approve_loop(_, _, _)
approve_loop(this, comps, always) ==
    IF comps = <<>> THEN this
    ELSE LET base_cmd == Head(comps).command
             args_str == join_words(Head(comps).args)
             cached == [this EXCEPT !.approved_commands =
                            cache_put(@, command_key(base_cmd, args_str), TRUE)]
         IN
         IF base_cmd = <<>> THEN approve_loop(this, Tail(comps), always)
         ELSE IF always
         THEN approve_loop([cached EXCEPT !.allow =
                                append_new(@, persisted_pattern(base_cmd, args_str))],
                           Tail(comps), always)
         ELSE approve_loop(cached, Tail(comps), always)

\* approve_command that persists the approval whatever always says
approve_command_persisting(this, cmd, always) ==
    approve_loop(this, utils_normalize_command(cmd), TRUE)

approve_command(this, cmd, always) ==
    approve_loop(this, utils_normalize_command(cmd), always)

\* the loop of deny_command over the components still to process
RECURSIVE deny_loop(_, _, _)
deny_loop(this, comps, always) ==
    IF comps = <<>> THEN this
    ELSE LET base_cmd == Head(comps).command
             args_str == join_words(Head(comps).args)
             cached == [this EXCEPT !.approved_commands =
                            cache_put(@, command_key(base_cmd, args_str), FALSE)]
         IN
         IF base_cmd = <<>> THEN deny_loop(this, Tail(comps), always)
         ELSE IF always
         THEN deny_loop([cached EXCEPT !.deny =
                             append_new(@, persisted_pattern(base_cmd, args_str))],
                        Tail(comps), always)
         ELSE deny_loop(cached, Tail(comps), always)

deny_command(this, cmd, always) ==
    deny_loop(this, utils_normalize_command(cmd), always)

-----------------------------------------------------------------------------
(* The older validators: validate_command of bot/utils.py and              *)
(* CommandExecutor.validate_command of bot/command.py                      *)

\* base_command of both validators: the first word shlex.split returns, ""
\* when it returns none, the first word of str.split() when it raises
base_command_of(cmd) ==
    LET parsed == shlex_split(cmd) IN
    IF parsed.ok
    THEN IF parsed.tokens # <<>> THEN parsed.tokens[1] ELSE <<>>
    ELSE IF cmd = <<>> THEN <<>>
    ELSE IF str_split(cmd) = <<>> THEN IndexError
    ELSE str_split(cmd)[1]

\* base_command in some_list
in_list(word, some_list) == \E k \in 1..Len(some_list) : some_list[k] = word

\* bot/utils.py validate_command
utils_validate_command(cmd, allow_list, deny_list, ask) ==
    LET base_command == base_command_of(cmd) IN
    IF base_command = IndexError THEN IndexError
    ELSE IF in_list(base_command, allow_list) THEN EXECUTE
    ELSE IF in_list(base_command, deny_list) THEN DENY
    ELSE IF ask THEN ASK
    ELSE DENY

\* bot/command.py CommandExecutor.validate_command; config is the BotConfig
\* of the executor
executor_validate_command(config, cmd) ==
    LET base_command == base_command_of(cmd) IN
    IF base_command = IndexError THEN IndexError
    ELSE IF in_list(base_command, config.command_permissions.allow) THEN EXECUTE
    ELSE IF in_list(base_command, config.command_permissions.deny) THEN DENY
    ELSE IF config.command_permissions.ask_if_unspecified THEN ASK
    ELSE DENY

-----------------------------------------------------------------------------
(* Bounds and input sets *)

MaxCalls == 2        \* execute_command calls in one behaviour
MaxComponents == 2   \* subcommands joined into one command
MaxChars == 5        \* pieces of a command given to the splitter
MaxTyped == 4        \* pieces of a command given to the normalizer
MaxWords == 3        \* words of a command given to the rule matcher
MaxUpdates == 2      \* approve_command / deny_command calls in one behaviour
MaxTasks == 2        \* tool calls the agent issues in one run

sp == <<" ">>
dq == <<"\"">>
ls == <<"l", "s">>
rm == <<"r", "m">>
pacman == <<"p", "a", "c", "m", "a", "n">>

\* subcommand texts: allowed, denied, unspecified, a bare redirection, an
\* unbalanced quote, bash -c wrappers (of a denied command, of a blank
\* script), and a package installation the default deny rules are about
ComponentTexts ==
    { ls,
      rm \o sp \o <<"x">>,
      <<"x">>,
      <<">", "x">>,
      dq \o <<"x">>,
      bash \o sp \o <<"-", "c">> \o sp \o dq \o rm \o sp \o <<"x">> \o dq,
      bash \o sp \o <<"-", "c">> \o sp \o dq \o sp \o dq,
      pacman \o sp \o <<"-", "S">> \o sp \o <<"p", "k", "g">> }

Joiners == { <<"|">>, <<"&", "&">> }

\* rule lists: none, plain rules, a filter rule of default_safe_permissions
\* (line 485), a blank rule string
AllowLists == { <<>>, <<ls, pacman>> }
DenyLists ==
    { <<>>, <<rm>>, << pacman \o <<":", "-", "S">> >>, << sp, rm >> }

\* pieces of the commands given to the splitter
SplitPieces ==
    { <<"a">>, sp, <<"|">>, <<"&", "&">>, <<";">>, dq, <<"'">>, <<"\\">> }

\* pieces of the commands given to the normalizer and the quote tracker:
\* the characters of the redirection operators, quotes and the backslash
RedirectionPieces ==
    { <<"a">>, sp, <<">">>, <<"<">>, <<"2">>, <<"&">>, dq, <<"'">>, <<"\\">> }

\* words of the commands given to the rule matcher: commands, short flags,
\* a long flag and subcommand words
MatchWords ==
    { ls, <<"-", "l">>, <<"-", "a">>, <<"-", "l", "a">>, <<"-", "-", "a", "l", "l">>,
      <<"g", "i", "t">>, <<"s", "t", "a", "t", "u", "s">> }

\* rules given to the rule matcher: a plain command, short-flag filters, a
\* long-flag filter, a literal filter, a two-word command, a partial word, a
\* rule without words
MatchRules ==
    { ls,
      ls \o <<":", "-", "a">>,
      ls \o <<":", "-", "l", "a">>,
      ls \o <<":", "-", "-", "a", "l", "l">>,
      <<"g", "i", "t", ":", "s", "t", "a", "t", "u", "s">>,
      <<"g", "i", "t", " ", "s", "t", "a", "t", "u", "s">>,
      <<"l">>,
      sp }

cat == <<"c", "a", "t">>

\* commands given to the approval cache: no argument, one argument, one
\* quoted argument with a blank, two arguments, an argument with a bracket
CacheCommands ==
    { cat,
      cat \o sp \o <<"a">>,
      cat \o sp \o dq \o <<"a", " ", "b">> \o dq,
      cat \o sp \o <<"a", " ", "b">>,
      cat \o sp \o <<"[", "a", "]">> }

\* rule lists the cache evaluator starts with
CacheAllowLists == { <<>>, << cat \o <<":", "a", "*">> >> }
CacheDenyLists == { <<>>, << cat \o <<":", "a">> >> }

\* deny lists of the sessions that approve compound commands
SessionDenyLists == { <<>>, <<cat>> }

\* commands and rule lists of the session that answers prompts: a command
\* with an argument and a pipeline that ends in it; no rules, an allow rule
\* for the command, a deny rule for the command
SessionCommands ==
    { cat \o sp \o <<"a">>, ls \o <<"|">> \o cat \o sp \o <<"a">> }
SessionRules ==
    { [allow |-> <<>>, deny |-> <<>>],
      [allow |-> <<cat>>, deny |-> <<>>],
      [allow |-> <<ls>>, deny |-> <<cat>>] }

\* what an agent puts into a shell command around an allowed and a denied
\* command: quotes, a backslash inside the word, a blank, the separators of
\* the shell that split_command does not list
ShellPieces ==
    { ls, rm, <<"r", "\\", "m">>, dq, sp, <<"&">>, <<"\n">> }

\* commands and lists given to the older validators (tests/test_command.py
\* lines 16-70), with a command in both lists, a quoted base command and a
\* command shlex cannot parse
LegacyCommands ==
    { <<>>, ls, rm \o sp \o <<"x">>, dq \o rm \o dq \o sp \o <<"x">>,
      <<"x">>, dq \o <<"x">> }
LegacyAllowLists == { <<>>, <<ls>>, <<ls, rm>> }
LegacyDenyLists == { <<>>, <<rm>> }

\* bash -c "<script>"
bash_c(script) == bash \o sp \o <<"-", "c">> \o sp \o dq \o script \o dq

\* scripts given to bash -c, and the commands the user approves: pipelines
\* whose last component has one argument "a b" or two arguments a and b, a
\* pipeline with the argument a, and the scripts through bash -c
Scripts ==
    { cat \o sp \o <<"a">>, ls \o <<"|">> \o cat \o sp \o <<"a">> }
CompoundCommands ==
    { ls \o <<"|">> \o cat \o sp \o dq \o <<"a", " ", "b">> \o dq,
      ls \o <<"|">> \o cat \o sp \o <<"a", " ", "b">>,
      ls \o <<"|">> \o cat \o sp \o <<"a">> }
    \cup { bash_c(script) : script \in Scripts }

\* commands of the tool calls of one agent run, and what their children answer
AgentCommands == { ls, rm \o sp \o <<"x">>, <<"x">> }
AgentReturnCodes == {0, 1}

\* commands given to the executor
ExecCommands ==
    { <<>>, sp, ls, rm \o sp \o <<"x">>, <<"x">>, dq \o <<"x">>,
      bash \o sp \o <<"-", "c">> \o sp \o dq \o sp \o dq,
      ls \o <<"|">> \o <<"x">> }

-----------------------------------------------------------------------------
(* Command Executor: CommandExecutor.execute_command *)

\* the CommandPermissions object the executor and the callers hold
self ==
    [allow |-> allow, deny |-> deny, ask_if_unspecified |-> ask_if_unspecified]

\* not command or not command.strip()
is_blank(cmd) == cmd = <<>> \/ strip(cmd) = <<>>

\* the dictionaries execute_command returns without running anything
empty_result ==
    [success |-> FALSE, output |-> "", error |-> "Empty command",
     exit_code |-> 1, status |-> "None"]
denied_result ==
    [success |-> FALSE, output |-> "",
     error |-> "Command is not allowed by bot permissions",
     exit_code |-> 1, status |-> "denied"]
refused_result ==
    [success |-> FALSE, output |-> "",
     error |-> "Command was not approved by the user.",
     exit_code |-> 1, status |-> "denied_by_user"]
unknown_result ==
    [success |-> FALSE, output |-> "", error |-> "Command validation failed",
     exit_code |-> 1, status |-> "denied"]
exception_result(e) ==
    [success |-> FALSE, output |-> "", error |-> e, exit_code |-> 1,
     status |-> "None"]

\* the characters of the bytes the children of the model write
ascii == (101 :> "e") @@ (111 :> "o") @@ (114 :> "r") @@ (116 :> "t") @@ (117 :> "u")

\* what bytes.decode() raises, and the text of that exception
UnicodeDecodeError == "UnicodeDecodeError"
decode_error_text == "'utf-8' codec can't decode byte 0xff in position 0: invalid start byte"

\* bytes.decode(): UTF-8, errors="strict".  Bytes below 128 are their ASCII
\* characters; the bytes 128 and above of the model (255) start no UTF-8
\* sequence, so decoding raises.  Multi-byte sequences are not modelled.
RECURSIVE decode(_)
decode(bytes) ==
    IF bytes = <<>> THEN ""
    ELSE IF Head(bytes) >= 128 THEN UnicodeDecodeError
    ELSE LET rest == decode(Tail(bytes)) IN
         IF rest = UnicodeDecodeError THEN UnicodeDecodeError
         ELSE ascii[Head(bytes)] \o rest

\* the Process object before the child has answered: returncode is None
no_process == [returncode |-> "None", stdout |-> <<>>, stderr |-> <<>>]

\* the dictionary of lines 143-163 from the bytes communicate() returned;
\* a field is UnicodeDecodeError when its decode() raises
completed_result(returncode, stdout, stderr) ==
    [success |-> returncode = 0,
     output |-> IF stdout # <<>> THEN decode(stdout) ELSE "",
     error |-> IF stderr # <<>> /\ returncode # 0 THEN decode(stderr) ELSE "None",
     exit_code |-> returncode,
     status |-> "None"]

\* lines 143-174 once communicate() has returned: the dictionary of the
\* child, or the dictionary of the except clause when a decode() raised
communicate_result(returncode, stdout, stderr) ==
    LET completed == completed_result(returncode, stdout, stderr) IN
    IF completed.output = UnicodeDecodeError \/ completed.error = UnicodeDecodeError
    THEN exception_result(decode_error_text)
    ELSE completed

\* permission_branch that shows the prompt for ASK whatever auto_approve says
permission_branch_always_confirms(act, auto) ==
    IF act = DENY THEN "denied"
    ELSE IF act = APPROVE THEN "execute"
    ELSE IF act = ASK THEN "confirm"
    ELSE "unknown"

\* permission_branch with auto_approve tested before the decision
permission_branch_auto_first(act, auto) ==
    IF auto THEN "execute"
    ELSE IF act = DENY THEN "denied"
    ELSE IF act = APPROVE THEN "execute"
    ELSE IF act = ASK THEN "confirm"
    ELSE "unknown"

\* The if/elif chain on the value of permit_command (lines 68-126): "denied"
\* returns the denial, "confirm" shows the prompt, "execute" goes on to the
\* try block, "unknown" is the default case.
permission_branch(act, auto) ==
    IF act = DENY THEN "denied"
    ELSE IF act = APPROVE THEN "execute"
    ELSE IF act = ASK THEN (IF auto THEN "execute" ELSE "confirm")
    ELSE "unknown"

\* what the child process and the operating system can answer
ReturnCodes == {0, 1, -9}
Stdouts == {<<>>, <<111, 117, 116>>, <<255>>}
Stderrs == {<<>>, <<101, 114, 114>>, <<255>>}
ExceptionTexts == {"[Errno 2] No such file or directory", ""}

\* execute_command from its entry up to its first suspension: the return of
\* a refusal, the confirmation prompt, or the spawn.  An IndexError of
\* permit_command leaves the function (line 65 is outside the try block).
ExecuteCommand(cmd, auto) ==
    /\ process' = no_process
    /\ UNCHANGED tasks
    /\ pc = "idle"
    /\ ncalls < MaxCalls
    /\ ncalls' = ncalls + 1
    /\ command' = cmd
    /\ auto_approve' = auto
    /\ child' = "none"
    /\ answer' = "none"
    /\ IF is_blank(cmd)
       THEN /\ action' = "none"
            /\ result' = empty_result
            /\ prompts' = 0
            /\ pc' = "returned"
       ELSE LET act == permit_command(self, cmd) IN
            IF act = IndexError
            THEN /\ action' = "none"
                 /\ result' = "none"
                 /\ prompts' = 0
                 /\ pc' = "raised"
            ELSE LET branch == permission_branch(act, auto) IN
                 /\ action' = act
                 /\ result' = IF branch = "denied" THEN denied_result
                              ELSE IF branch = "unknown" THEN unknown_result
                              ELSE "none"
                 /\ prompts' = IF branch = "confirm" THEN 1 ELSE 0
                 /\ pc' = IF branch \in {"denied", "unknown"} THEN "returned"
                          ELSE IF branch = "confirm" THEN "confirm"
                          ELSE "spawn"
    /\ UNCHANGED <<normalized_components, pos, in_quotes, rule_string, matched,
                    approved_commands, verdict>>
    /\ UNCHANGED <<allow, deny, ask_if_unspecified, decision, components, npieces>>

\* Confirm.ask("Allow this command?") returns
Confirm(yes) ==
    /\ UNCHANGED <<process, tasks>>
    /\ pc = "confirm"
    /\ answer' = IF yes THEN "yes" ELSE "no"
    /\ pc' = IF yes THEN "spawn" ELSE "returned"
    /\ result' = IF yes THEN result ELSE refused_result
    /\ UNCHANGED <<normalized_components, pos, in_quotes, rule_string, matched,
                    approved_commands, verdict>>
    /\ UNCHANGED <<allow, deny, ask_if_unspecified, command, auto_approve, action,
                   child, prompts, ncalls, decision, components, npieces>>

\* await asyncio.create_subprocess_shell(command, ...) returns a process
CreateSubprocess ==
    /\ UNCHANGED <<process, tasks>>
    /\ pc = "spawn"
    /\ child' = "running"
    /\ pc' = "communicate"
    /\ UNCHANGED <<normalized_components, pos, in_quotes, rule_string, matched,
                    approved_commands, verdict>>
    /\ UNCHANGED <<allow, deny, ask_if_unspecified, command, auto_approve, action,
                   result, prompts, answer, ncalls, decision, components, npieces>>

\* create_subprocess_shell raises: the except clause of lines 165-174
SpawnRaises(e) ==
    /\ UNCHANGED <<process, tasks>>
    /\ pc = "spawn"
    /\ result' = exception_result(e)
    /\ pc' = "returned"
    /\ UNCHANGED <<normalized_components, pos, in_quotes, rule_string, matched,
                    approved_commands, verdict>>
    /\ UNCHANGED <<allow, deny, ask_if_unspecified, command, auto_approve, action,
                   child, prompts, answer, ncalls, decision, components, npieces>>

\* await process.communicate() returns: the child has terminated, and the
\* function runs on to its return (lines 143-174)
Communicate(returncode, stdout, stderr) ==
    /\ UNCHANGED tasks
    /\ pc = "communicate"
    /\ child' = "exited"
    /\ process' = [returncode |-> returncode, stdout |-> stdout, stderr |-> stderr]
    /\ result' = communicate_result(returncode, stdout, stderr)
    /\ pc' = "returned"
    /\ UNCHANGED <<normalized_components, pos, in_quotes, rule_string, matched,
                    approved_commands, verdict>>
    /\ UNCHANGED <<allow, deny, ask_if_unspecified, command, auto_approve, action,
                   prompts, answer, ncalls, decision, components, npieces>>

\* communicate() raises
CommunicateRaises(e) ==
    /\ UNCHANGED <<process, tasks>>
    /\ pc = "communicate"
    /\ result' = exception_result(e)
    /\ pc' = "returned"
    /\ UNCHANGED <<normalized_components, pos, in_quotes, rule_string, matched,
                    approved_commands, verdict>>
    /\ UNCHANGED <<allow, deny, ask_if_unspecified, command, auto_approve, action,
                   child, prompts, answer, ncalls, decision, components, npieces>>

\* the caller takes the result (or the exception): the executor is free again
Return ==
    /\ UNCHANGED <<process, tasks>>
    /\ pc \in {"returned", "raised"}
    /\ pc' = "idle"
    /\ UNCHANGED <<normalized_components, pos, in_quotes, rule_string, matched,
                    approved_commands, verdict>>
    /\ UNCHANGED <<allow, deny, ask_if_unspecified, command, auto_approve, action,
                   result, child, prompts, answer, ncalls, decision, components, npieces>>

-----------------------------------------------------------------------------
(* The executor: one CommandExecutor serving calls one after the other *)

Init ==
    /\ allow \in AllowLists
    /\ deny \in DenyLists
    /\ ask_if_unspecified \in BOOLEAN
    /\ command = <<>>
    /\ auto_approve = FALSE
    /\ pc = "idle"
    /\ action = "none"
    /\ result = "none"
    /\ child = "none"
    /\ prompts = 0
    /\ answer = "none"
    /\ ncalls = 0
    /\ decision = "none"
    /\ components = "none"
    /\ npieces = 0
    /\ normalized_components = "none"
    /\ pos = 0
    /\ in_quotes = FALSE
    /\ rule_string = <<>>
    /\ matched = FALSE
    /\ approved_commands = <<>>
    /\ verdict = "none"
    /\ process = no_process
    /\ tasks = <<>>

Next ==
    \/ \E cmd \in ExecCommands, auto \in BOOLEAN : ExecuteCommand(cmd, auto)
    \/ \E yes \in BOOLEAN : Confirm(yes)
    \/ CreateSubprocess
    \/ \E e \in ExceptionTexts : SpawnRaises(e)
    \/ \E rc \in ReturnCodes, out \in Stdouts, err \in Stderrs : Communicate(rc, out, err)
    \/ \E e \in ExceptionTexts : CommunicateRaises(e)
    \/ Return

Spec == Init /\ [][Next]_vars

-----------------------------------------------------------------------------
(* A caller that composes a command and calls permit_command on it *)

PermitInit ==
    /\ allow \in AllowLists
    /\ deny \in DenyLists
    /\ ask_if_unspecified \in BOOLEAN
    /\ command = <<>>
    /\ auto_approve = FALSE
    /\ pc = "idle"
    /\ action = "none"
    /\ result = "none"
    /\ child = "none"
    /\ prompts = 0
    /\ answer = "none"
    /\ ncalls = 0
    /\ decision = "none"
    /\ components = "none"
    /\ npieces = 0
    /\ normalized_components = "none"
    /\ pos = 0
    /\ in_quotes = FALSE
    /\ rule_string = <<>>
    /\ matched = FALSE
    /\ approved_commands = <<>>
    /\ verdict = "none"
    /\ process = no_process
    /\ tasks = <<>>

\* the caller appends one more subcommand to the command it will ask about
Compose(joiner, text) ==
    /\ UNCHANGED <<process, tasks>>
    /\ decision = "none"
    /\ npieces < MaxComponents
    /\ npieces' = npieces + 1
    /\ command' = IF npieces = 0 THEN text ELSE command \o joiner \o text
    /\ UNCHANGED <<normalized_components, pos, in_quotes, rule_string, matched,
                    approved_commands, verdict>>
    /\ UNCHANGED <<allow, deny, ask_if_unspecified, auto_approve, pc, action,
                   result, child, prompts, answer, ncalls, decision, components>>

PermitCommand ==
    /\ UNCHANGED <<process, tasks>>
    /\ decision = "none"
    /\ decision' = permit_command(self, command)
    /\ UNCHANGED <<normalized_components, pos, in_quotes, rule_string, matched,
                    approved_commands, verdict>>
    /\ UNCHANGED <<allow, deny, ask_if_unspecified, command, auto_approve, pc,
                   action, result, child, prompts, answer, ncalls, components,
                   npieces>>

PermitNext ==
    \/ \E joiner \in Joiners, text \in ComponentTexts : Compose(joiner, text)
    \/ PermitCommand

SpecPermit == PermitInit /\ [][PermitNext]_vars

-----------------------------------------------------------------------------
(* A caller that types a command and calls split_command on it *)

SplitInit ==
    /\ allow = <<>>
    /\ deny = <<>>
    /\ ask_if_unspecified = TRUE
    /\ command = <<>>
    /\ auto_approve = FALSE
    /\ pc = "idle"
    /\ action = "none"
    /\ result = "none"
    /\ child = "none"
    /\ prompts = 0
    /\ answer = "none"
    /\ ncalls = 0
    /\ decision = "none"
    /\ components = "none"
    /\ npieces = 0
    /\ normalized_components = "none"
    /\ pos = 0
    /\ in_quotes = FALSE
    /\ rule_string = <<>>
    /\ matched = FALSE
    /\ approved_commands = <<>>
    /\ verdict = "none"
    /\ process = no_process
    /\ tasks = <<>>

Type(piece) ==
    /\ UNCHANGED <<process, tasks>>
    /\ components = "none"
    /\ npieces < MaxChars
    /\ npieces' = npieces + 1
    /\ command' = command \o piece
    /\ UNCHANGED <<normalized_components, pos, in_quotes, rule_string, matched,
                    approved_commands, verdict>>
    /\ UNCHANGED <<allow, deny, ask_if_unspecified, auto_approve, pc, action,
                   result, child, prompts, answer, ncalls, decision, components>>

SplitCommand ==
    /\ UNCHANGED <<process, tasks>>
    /\ components = "none"
    /\ components' = split_command(command)
    /\ UNCHANGED <<normalized_components, pos, in_quotes, rule_string, matched,
                    approved_commands, verdict>>
    /\ UNCHANGED <<allow, deny, ask_if_unspecified, command, auto_approve, pc,
                   action, result, child, prompts, answer, ncalls, decision,
                   npieces>>

SplitNext ==
    \/ \E piece \in SplitPieces : Type(piece)
    \/ SplitCommand

SpecSplit == SplitInit /\ [][SplitNext]_vars

-----------------------------------------------------------------------------
(* A caller that types a command and calls normalize_command or             *)
(* _is_in_quotes on it                                                      *)

NormalizeInit ==
    /\ allow = <<>>
    /\ deny = <<>>
    /\ ask_if_unspecified = TRUE
    /\ command = <<>>
    /\ auto_approve = FALSE
    /\ pc = "idle"
    /\ action = "none"
    /\ result = "none"
    /\ child = "none"
    /\ prompts = 0
    /\ answer = "none"
    /\ ncalls = 0
    /\ decision = "none"
    /\ components = "none"
    /\ npieces = 0
    /\ normalized_components = "none"
    /\ pos = 0
    /\ in_quotes = FALSE
    /\ rule_string = <<>>
    /\ matched = FALSE
    /\ approved_commands = <<>>
    /\ verdict = "none"
    /\ process = no_process
    /\ tasks = <<>>

TypeRedirection(piece) ==
    /\ UNCHANGED <<process, tasks>>
    /\ pc = "idle"
    /\ npieces < MaxTyped
    /\ npieces' = npieces + 1
    /\ command' = command \o piece
    /\ UNCHANGED <<allow, deny, ask_if_unspecified, auto_approve, pc, action,
                   result, child, prompts, answer, ncalls, decision, components,
                   normalized_components, pos, in_quotes, rule_string, matched,
                   approved_commands, verdict>>

NormalizeCommand ==
    /\ UNCHANGED <<process, tasks>>
    /\ pc = "idle"
    /\ pc' = "normalized"
    /\ normalized_components' = normalize_command(command)
    /\ UNCHANGED <<allow, deny, ask_if_unspecified, command, auto_approve,
                   action, result, child, prompts, answer, ncalls, decision,
                   components, npieces, pos, in_quotes, rule_string, matched,
                   approved_commands, verdict>>

IsInQuotes(p) ==
    /\ UNCHANGED <<process, tasks>>
    /\ pc = "idle"
    /\ pc' = "quotes_checked"
    /\ pos' = p
    /\ in_quotes' = is_in_quotes(command, p)
    /\ UNCHANGED <<allow, deny, ask_if_unspecified, command, auto_approve,
                   action, result, child, prompts, answer, ncalls, decision,
                   components, npieces, normalized_components, rule_string,
                   matched, approved_commands, verdict>>

NormalizeNext ==
    \/ \E piece \in RedirectionPieces : TypeRedirection(piece)
    \/ NormalizeCommand
    \/ \E p \in 0..(Len(command) + 1) : IsInQuotes(p)

SpecNormalize == NormalizeInit /\ [][NormalizeNext]_vars

-----------------------------------------------------------------------------
(* A caller that types a command word by word and calls matches_rule on it, *)
(* or permit_command with the rule as the only allow rule                   *)

MatchInit ==
    /\ rule_string \in MatchRules
    /\ allow = <<rule_string>>
    /\ deny = <<>>
    /\ ask_if_unspecified = TRUE
    /\ command = <<>>
    /\ auto_approve = FALSE
    /\ pc = "idle"
    /\ action = "none"
    /\ result = "none"
    /\ child = "none"
    /\ prompts = 0
    /\ answer = "none"
    /\ ncalls = 0
    /\ decision = "none"
    /\ components = "none"
    /\ npieces = 0
    /\ normalized_components = "none"
    /\ pos = 0
    /\ in_quotes = FALSE
    /\ matched = FALSE
    /\ approved_commands = <<>>
    /\ verdict = "none"
    /\ process = no_process
    /\ tasks = <<>>

TypeWord(word) ==
    /\ UNCHANGED <<process, tasks>>
    /\ pc = "idle"
    /\ decision = "none"
    /\ npieces < MaxWords
    /\ npieces' = npieces + 1
    /\ command' = IF npieces = 0 THEN word ELSE command \o sp \o word
    /\ UNCHANGED <<allow, deny, ask_if_unspecified, auto_approve, pc, action,
                   result, child, prompts, answer, ncalls, decision, components,
                   normalized_components, pos, in_quotes, rule_string, matched,
                   approved_commands, verdict>>

MatchesRule ==
    /\ UNCHANGED <<process, tasks>>
    /\ pc = "idle"
    /\ decision = "none"
    /\ pc' = "matched"
    /\ matched' = matches_rule(command, rule_string)
    /\ UNCHANGED <<allow, deny, ask_if_unspecified, command, auto_approve,
                   action, result, child, prompts, answer, ncalls, decision,
                   components, npieces, normalized_components, pos, in_quotes,
                   rule_string, approved_commands, verdict>>

MatchNext ==
    \/ \E word \in MatchWords : TypeWord(word)
    \/ MatchesRule
    \/ PermitCommand

SpecMatch == MatchInit /\ [][MatchNext]_vars

-----------------------------------------------------------------------------
(* A session that approves, denies and validates commands on one            *)
(* CommandPermissions of bots/permissions.py, and builds a new instance     *)
(* from its allow and deny lists                                            *)

permissions ==
    [allow |-> allow, deny |-> deny, ask_if_unspecified |-> ask_if_unspecified,
     approved_commands |-> approved_commands]

CacheInit ==
    /\ allow \in CacheAllowLists
    /\ deny \in CacheDenyLists
    /\ ask_if_unspecified \in BOOLEAN
    /\ approved_commands = <<>>
    /\ command = <<>>
    /\ auto_approve = FALSE
    /\ pc = "idle"
    /\ action = "none"
    /\ result = "none"
    /\ child = "none"
    /\ prompts = 0
    /\ answer = "none"
    /\ ncalls = 0
    /\ decision = "none"
    /\ components = "none"
    /\ npieces = 0
    /\ normalized_components = "none"
    /\ pos = 0
    /\ in_quotes = FALSE
    /\ rule_string = <<>>
    /\ matched = FALSE
    /\ verdict = "none"
    /\ process = no_process
    /\ tasks = <<>>

ApproveCommand(cmd, always) ==
    /\ UNCHANGED <<process, tasks>>
    /\ ncalls < MaxUpdates
    /\ ncalls' = ncalls + 1
    /\ command' = cmd
    /\ LET after == approve_command(permissions, cmd, always) IN
          /\ allow' = after.allow
          /\ deny' = after.deny
          /\ approved_commands' = after.approved_commands
    /\ pc' = IF always THEN "approved_always" ELSE "approved"
    /\ verdict' = "none"
    /\ UNCHANGED <<ask_if_unspecified, auto_approve, action, result, child,
                   prompts, answer, decision, components, npieces,
                   normalized_components, pos, in_quotes, rule_string, matched>>

DenyCommand(cmd, always) ==
    /\ UNCHANGED <<process, tasks>>
    /\ ncalls < MaxUpdates
    /\ ncalls' = ncalls + 1
    /\ command' = cmd
    /\ LET after == deny_command(permissions, cmd, always) IN
          /\ allow' = after.allow
          /\ deny' = after.deny
          /\ approved_commands' = after.approved_commands
    /\ pc' = IF always THEN "denied_always" ELSE "denied"
    /\ verdict' = "none"
    /\ UNCHANGED <<ask_if_unspecified, auto_approve, action, result, child,
                   prompts, answer, decision, components, npieces,
                   normalized_components, pos, in_quotes, rule_string, matched>>

\* CommandPermissions(allow=..., deny=..., ask_if_unspecified=...) built from
\* the lists of the instance just updated: its cache is empty
NewInstance ==
    /\ UNCHANGED <<process, tasks>>
    /\ pc \in {"approved", "approved_always", "denied", "denied_always"}
    /\ pc' = "new"
    /\ approved_commands' = <<>>
    /\ UNCHANGED <<allow, deny, ask_if_unspecified, command, auto_approve,
                   action, result, child, prompts, answer, ncalls, decision,
                   components, npieces, normalized_components, pos, in_quotes,
                   rule_string, matched, verdict>>

ValidateCommand(cmd) ==
    /\ UNCHANGED <<process, tasks>>
    /\ pc # "validated"
    /\ pc' = "validated"
    /\ command' = cmd
    /\ verdict' = validate_command(permissions, cmd)
    /\ UNCHANGED <<allow, deny, ask_if_unspecified, auto_approve, action,
                   result, child, prompts, answer, ncalls, decision, components,
                   npieces, normalized_components, pos, in_quotes, rule_string,
                   matched, approved_commands>>

CacheNext ==
    \/ \E cmd \in CacheCommands, always \in BOOLEAN : ApproveCommand(cmd, always)
    \/ \E cmd \in CacheCommands, always \in BOOLEAN : DenyCommand(cmd, always)
    \/ NewInstance
    \/ \E cmd \in CacheCommands : ValidateCommand(cmd)

SpecCache == CacheInit /\ [][CacheNext]_vars

-----------------------------------------------------------------------------
(* A session in which the user answers prompts (approve_command,            *)
(* deny_command) between evaluations by validate_command of                 *)
(* bots/permissions.py and by permit_command of bots/command/permissions.py *)
(* on the same allow and deny lists                                         *)

SessionInit ==
    /\ \E rules \in SessionRules : allow = rules.allow /\ deny = rules.deny
    /\ ask_if_unspecified \in BOOLEAN
    /\ approved_commands = <<>>
    /\ command = <<>>
    /\ auto_approve = FALSE
    /\ pc = "idle"
    /\ action = "none"
    /\ result = "none"
    /\ child = "none"
    /\ prompts = 0
    /\ answer = "none"
    /\ ncalls = 0
    /\ decision = "none"
    /\ components = "none"
    /\ npieces = 0
    /\ normalized_components = "none"
    /\ pos = 0
    /\ in_quotes = FALSE
    /\ rule_string = <<>>
    /\ matched = FALSE
    /\ verdict = "none"
    /\ process = no_process
    /\ tasks = <<>>

\* permissions.permit_command(cmd) on the lists of the session
PermitSessionCommand(cmd) ==
    /\ UNCHANGED <<process, tasks>>
    /\ pc # "permitted"
    /\ pc' = "permitted"
    /\ command' = cmd
    /\ decision' = permit_command(self, cmd)
    /\ UNCHANGED <<allow, deny, ask_if_unspecified, auto_approve, action,
                   result, child, prompts, answer, ncalls, components, npieces,
                   normalized_components, pos, in_quotes, rule_string, matched,
                   approved_commands, verdict>>

SessionNext ==
    \/ \E cmd \in SessionCommands, always \in BOOLEAN : ApproveCommand(cmd, always)
    \/ \E cmd \in SessionCommands, always \in BOOLEAN : DenyCommand(cmd, always)
    \/ \E cmd \in SessionCommands : ValidateCommand(cmd)
    \/ \E cmd \in SessionCommands : PermitSessionCommand(cmd)

SpecSession == SessionInit /\ [][SessionNext]_vars

-----------------------------------------------------------------------------
(* A session in which the user approves compound commands and commands     *)
(* given to bash -c, and validate_command is asked about them              *)

CompoundInit ==
    /\ allow = <<>>
    /\ deny \in SessionDenyLists
    /\ ask_if_unspecified \in BOOLEAN
    /\ approved_commands = <<>>
    /\ command = <<>>
    /\ auto_approve = FALSE
    /\ pc = "idle"
    /\ action = "none"
    /\ result = "none"
    /\ child = "none"
    /\ prompts = 0
    /\ answer = "none"
    /\ ncalls = 0
    /\ decision = "none"
    /\ components = "none"
    /\ npieces = 0
    /\ normalized_components = "none"
    /\ pos = 0
    /\ in_quotes = FALSE
    /\ rule_string = <<>>
    /\ matched = FALSE
    /\ verdict = "none"
    /\ process = no_process
    /\ tasks = <<>>

CompoundNext ==
    \/ \E cmd \in CompoundCommands, always \in BOOLEAN : ApproveCommand(cmd, always)
    \/ \E cmd \in CompoundCommands \cup Scripts : ValidateCommand(cmd)

SpecCompound == CompoundInit /\ [][CompoundNext]_vars

-----------------------------------------------------------------------------
(* An agent that writes a shell command piece by piece and asks             *)
(* permit_command about it, under an allow rule for ls and a deny rule for  *)
(* rm                                                                       *)

ShellInit ==
    /\ allow = <<ls>>
    /\ deny = <<rm>>
    /\ ask_if_unspecified \in BOOLEAN
    /\ command = <<>>
    /\ auto_approve = FALSE
    /\ pc = "idle"
    /\ action = "none"
    /\ result = "none"
    /\ child = "none"
    /\ prompts = 0
    /\ answer = "none"
    /\ ncalls = 0
    /\ decision = "none"
    /\ components = "none"
    /\ npieces = 0
    /\ normalized_components = "none"
    /\ pos = 0
    /\ in_quotes = FALSE
    /\ rule_string = <<>>
    /\ matched = FALSE
    /\ approved_commands = <<>>
    /\ verdict = "none"
    /\ process = no_process
    /\ tasks = <<>>

\* the agent appends a piece to the command it will submit
WriteShell(piece) ==
    /\ decision = "none"
    /\ npieces < MaxTyped
    /\ npieces' = npieces + 1
    /\ command' = command \o piece
    /\ UNCHANGED <<allow, deny, ask_if_unspecified, auto_approve, pc, action,
                   result, child, prompts, answer, ncalls, decision, components,
                   normalized_components, pos, in_quotes, rule_string, matched,
                   approved_commands, verdict, process, tasks>>

ShellNext ==
    \/ \E piece \in ShellPieces : WriteShell(piece)
    \/ PermitCommand

SpecShell == ShellInit /\ [][ShellNext]_vars

-----------------------------------------------------------------------------
(* A caller of the older validators *)

\* the BotConfig of the older CommandExecutor
config == [command_permissions |-> self]

LegacyInit ==
    /\ allow \in LegacyAllowLists
    /\ deny \in LegacyDenyLists
    /\ ask_if_unspecified \in BOOLEAN
    /\ command = <<>>
    /\ auto_approve = FALSE
    /\ pc = "idle"
    /\ action = "none"
    /\ result = "none"
    /\ child = "none"
    /\ prompts = 0
    /\ answer = "none"
    /\ ncalls = 0
    /\ decision = "none"
    /\ components = "none"
    /\ npieces = 0
    /\ normalized_components = "none"
    /\ pos = 0
    /\ in_quotes = FALSE
    /\ rule_string = <<>>
    /\ matched = FALSE
    /\ approved_commands = <<>>
    /\ verdict = "none"
    /\ process = no_process
    /\ tasks = <<>>

\* validate_command(cmd, allow, deny, ask_if_unspecified) of bot/utils.py
UtilsValidateCommand(cmd) ==
    /\ pc = "idle"
    /\ pc' = "utils_validated"
    /\ command' = cmd
    /\ verdict' = utils_validate_command(cmd, allow, deny, ask_if_unspecified)
    /\ UNCHANGED <<allow, deny, ask_if_unspecified, auto_approve, action,
                   result, child, prompts, answer, ncalls, decision, components,
                   npieces, normalized_components, pos, in_quotes, rule_string,
                   matched, approved_commands, process, tasks>>

\* CommandExecutor(config).validate_command(cmd) of bot/command.py
ExecutorValidateCommand(cmd) ==
    /\ pc = "idle"
    /\ pc' = "executor_validated"
    /\ command' = cmd
    /\ verdict' = executor_validate_command(config, cmd)
    /\ UNCHANGED <<allow, deny, ask_if_unspecified, auto_approve, action,
                   result, child, prompts, answer, ncalls, decision, components,
                   npieces, normalized_components, pos, in_quotes, rule_string,
                   matched, approved_commands, process, tasks>>

LegacyNext ==
    \/ \E cmd \in LegacyCommands : UtilsValidateCommand(cmd)
    \/ \E cmd \in LegacyCommands : ExecutorValidateCommand(cmd)

SpecLegacy == LegacyInit /\ [][LegacyNext]_vars

-----------------------------------------------------------------------------
(* One agent run (bots/bot.py generate_response): every tool call of the   *)
(* agent is a call of execute_command on the one CommandExecutor of the    *)
(* bot, with the auto_approve of the run.  The calls are coroutines on one *)
(* event loop: a call runs from one await to the next without interruption *)
(* (Confirm.ask blocks the loop), and at an await any other call may run.  *)
(* tasks[i] is the call of the i-th tool call.                             *)

\* execute_command from its entry to its first await (lines 52-136), as the
\* record of the call: yes is what Confirm.ask returns if it is shown
task_entry(cmd, auto, yes) ==
    LET act == permit_command(self, cmd)
        branch == permission_branch(act, auto)
    IN
    IF is_blank(cmd)
    THEN [command |-> cmd, pc |-> "returned", action |-> "none",
          child |-> "none", result |-> empty_result]
    ELSE IF act = IndexError
    THEN [command |-> cmd, pc |-> "raised", action |-> "none",
          child |-> "none", result |-> "none"]
    ELSE IF branch = "denied"
    THEN [command |-> cmd, pc |-> "returned", action |-> act,
          child |-> "none", result |-> denied_result]
    ELSE IF branch = "unknown"
    THEN [command |-> cmd, pc |-> "returned", action |-> act,
          child |-> "none", result |-> unknown_result]
    ELSE IF branch = "confirm" /\ ~yes
    THEN [command |-> cmd, pc |-> "returned", action |-> act,
          child |-> "none", result |-> refused_result]
    ELSE [command |-> cmd, pc |-> "spawn", action |-> act,
          child |-> "none", result |-> "none"]

AgentInit ==
    /\ allow = <<ls>>
    /\ deny = <<rm>>
    /\ ask_if_unspecified \in BOOLEAN
    /\ auto_approve \in BOOLEAN
    /\ command = <<>>
    /\ pc = "idle"
    /\ action = "none"
    /\ result = "none"
    /\ child = "none"
    /\ prompts = 0
    /\ answer = "none"
    /\ ncalls = 0
    /\ decision = "none"
    /\ components = "none"
    /\ npieces = 0
    /\ normalized_components = "none"
    /\ pos = 0
    /\ in_quotes = FALSE
    /\ rule_string = <<>>
    /\ matched = FALSE
    /\ approved_commands = <<>>
    /\ verdict = "none"
    /\ process = no_process
    /\ tasks = <<>>

\* the agent calls the tool execute_command(command): the call runs up to
\* its first await
ToolCall(cmd, yes) ==
    /\ Len(tasks) < MaxTasks
    /\ tasks' = Append(tasks, task_entry(cmd, auto_approve, yes))
    /\ UNCHANGED <<allow, deny, ask_if_unspecified, command, auto_approve, pc,
                   action, result, child, prompts, answer, ncalls, decision,
                   components, npieces, normalized_components, pos, in_quotes,
                   rule_string, matched, approved_commands, verdict, process>>

\* await asyncio.create_subprocess_shell(...) of call i returns a process
TaskCreateSubprocess(i) ==
    /\ i \in 1..Len(tasks)
    /\ tasks[i].pc = "spawn"
    /\ tasks' = [tasks EXCEPT ![i].child = "running", ![i].pc = "communicate"]
    /\ UNCHANGED <<allow, deny, ask_if_unspecified, command, auto_approve, pc,
                   action, result, child, prompts, answer, ncalls, decision,
                   components, npieces, normalized_components, pos, in_quotes,
                   rule_string, matched, approved_commands, verdict, process>>

\* create_subprocess_shell of call i raises: the except clause
TaskSpawnRaises(i, e) ==
    /\ i \in 1..Len(tasks)
    /\ tasks[i].pc = "spawn"
    /\ tasks' = [tasks EXCEPT ![i].result = exception_result(e),
                              ![i].pc = "returned"]
    /\ UNCHANGED <<allow, deny, ask_if_unspecified, command, auto_approve, pc,
                   action, result, child, prompts, answer, ncalls, decision,
                   components, npieces, normalized_components, pos, in_quotes,
                   rule_string, matched, approved_commands, verdict, process>>

\* await process.communicate() of call i returns: its child has terminated
TaskCommunicate(i, returncode) ==
    /\ i \in 1..Len(tasks)
    /\ tasks[i].pc = "communicate"
    /\ tasks' = [tasks EXCEPT ![i].child = "exited",
                              ![i].result = communicate_result(returncode, <<>>, <<>>),
                              ![i].pc = "returned"]
    /\ UNCHANGED <<allow, deny, ask_if_unspecified, command, auto_approve, pc,
                   action, result, child, prompts, answer, ncalls, decision,
                   components, npieces, normalized_components, pos, in_quotes,
                   rule_string, matched, approved_commands, verdict, process>>

AgentNext ==
    \/ \E cmd \in AgentCommands, yes \in BOOLEAN : ToolCall(cmd, yes)
    \/ \E i \in 1..MaxTasks : TaskCreateSubprocess(i)
    \/ \E i \in 1..MaxTasks, e \in ExceptionTexts : TaskSpawnRaises(i, e)
    \/ \E i \in 1..MaxTasks, rc \in AgentReturnCodes : TaskCommunicate(i, rc)

SpecAgent == AgentInit /\ [][AgentNext]_vars

-----------------------------------------------------------------------------
(* Claims about the executor (Spec) *)

\* C1: execute_command spawns a child process only if the command is
\* non-blank and permit_command returned APPROVE, or returned ASK and either
\* auto_approve is true or the prompt was answered yes; when the command is
\* blank, the decision is DENY or the user refuses, no process is spawned and
\* the result has exit_code 1, success false, empty output, non-empty error.
C1_SpawnOnlyWhenAuthorised ==
    /\ (child # "none" =>
          /\ ~is_blank(command)
          /\ \/ action = APPROVE
             \/ action = ASK /\ (auto_approve \/ answer = "yes"))
    /\ (pc = "returned" /\ (is_blank(command) \/ action = DENY \/ answer = "no") =>
          /\ child = "none"
          /\ result.exit_code = 1
          /\ result.success = FALSE
          /\ result.output = ""
          /\ result.error \notin {"", "None"})

\* a child spawned after the prompt was answered yes
C1_Witness == child = "running" /\ action = ASK /\ ~auto_approve /\ answer = "yes"

-----------------------------------------------------------------------------
(* Claims about permit_command (SpecPermit) *)

\* the Permission values of the set
RECURSIVE alone_votes(_, _)
alone_votes(perms, comps) ==
    IF comps = <<>> THEN {}
    ELSE {permit_command(perms, Head(comps).raw_command)}
            \cup alone_votes(perms, Tail(comps))

\* C2: most-restrictive-wins over the subcommands split_command returns: the
\* decision is DENY if permit_command of any subcommand alone is DENY,
\* otherwise ASK if any alone is ASK, and APPROVE only if all alone are APPROVE.
C2_MostRestrictiveWins ==
    decision # "none" =>
        LET alone == alone_votes(self, split_command(command)) IN
        /\ (DENY \in alone => decision = DENY)
        /\ (DENY \notin alone /\ ASK \in alone => decision = ASK)
        /\ (decision = APPROVE => alone \subseteq {APPROVE})

\* the first whitespace-separated word of a rule's command part
rule_base(rule) == str_split(rule_command_of(rule))[1]

\* C3: for a single-component command, if matches_rule is true for at least
\* one deny rule and for at least one allow rule with the same base command,
\* permit_command returns DENY.
C3_DenyPrecedence ==
    decision # "none" /\ Len(normalize_command(command)) = 1 =>
        LET text == normalize_command(command)[1].command IN
        (\E d \in 1..Len(deny), a \in 1..Len(allow) :
            /\ matches_rule(text, deny[d])
            /\ matches_rule(text, allow[a])
            /\ str_split(rule_command_of(deny[d])) # <<>>
            /\ str_split(rule_command_of(allow[a])) # <<>>
            /\ rule_base(deny[d]) = rule_base(allow[a]))
        => decision = DENY

\* C4: every deny rule that matches a component under matches_rule makes
\* permit_command return DENY for any command containing that component,
\* rules of the form command:filter with a one-word command included.
C4_MatchingDenyRuleDenies ==
    decision # "none" =>
        LET comps == normalize_command(command) IN
        (\E k \in 1..Len(comps), d \in 1..Len(deny) :
            matches_rule(comps[k].command, deny[d]))
        => decision = DENY

\* C5: if shell tokenization of any component fails, normalize_command marks
\* that component invalid with its text kept, and permit_command returns
\* DENY for the whole command whatever the rules and the other components.
C5_InvalidForcesDeny ==
    decision # "none" =>
        LET split == split_command(command)
            comps == normalize_command(command)
        IN
        \A k \in 1..Len(split) :
            LET raw == strip_redirection(split[k].raw_command,
                                         first_redirection(split[k].raw_command))
            IN
            ~shlex_split(raw).ok =>
                /\ \E n \in 1..Len(comps) : comps[n].invalid /\ comps[n].command = raw
                /\ decision = DENY

\* C6: permit_command returns APPROVE only if the command has at least one
\* component and every component is matched by at least one allow rule.
C6_NeverSilentlyApproves ==
    decision = APPROVE =>
        LET comps == normalize_command(command) IN
        /\ comps # <<>>
        /\ \A k \in 1..Len(comps) :
              /\ ~comps[k].invalid
              /\ \E a \in 1..Len(allow) : matches_rule(comps[k].command, allow[a])

\* a compound command approved because each of its two components is allowed
C6_Witness == decision = APPROVE /\ Len(normalize_command(command)) = 2

\* C7: when ask_if_unspecified is false permit_command never returns ASK (an
\* unmatched component votes DENY, a command of zero components is DENY);
\* when it is true both cases give ASK.
C7_AskOnlyIfConfigured ==
    decision # "none" =>
        /\ (~ask_if_unspecified => decision # ASK)
        /\ (normalize_command(command) = <<>> =>
                decision = IF ask_if_unspecified THEN ASK ELSE DENY)

\* the words of a are the first words of b
is_prefix(a, b) == Len(a) <= Len(b) /\ SubSeq(b, 1, Len(a)) = a

\* C8: for a component bash -c <script> or bash -lc <script> the component
\* text is the inner script with via_bash = true, and if a deny rule without
\* filter has its command words as a prefix of the inner script's words, the
\* decision is DENY.
C8_BashScriptInspected ==
    decision # "none" =>
        LET comps == normalize_command(command) IN
        (\E k \in 1..Len(comps), d \in 1..Len(deny) :
            /\ comps[k].via_bash
            /\ ~contains(deny[d], <<":">>)
            /\ str_split(deny[d]) # <<>>
            /\ is_prefix(str_split(deny[d]), str_split(comps[k].command)))
        => decision = DENY

\* C9: permit_command is total: for every command and every rule lists it
\* returns one of DENY, ASK, APPROVE and never raises.
C9_PermitTotal == decision \in {"none", DENY, ASK, APPROVE}

-----------------------------------------------------------------------------
(* Claims about split_command (SpecSplit) *)

\* the Quote Tracker finds no quote open at the end of the command
balanced_quotes(cmd) == ~is_in_quotes(cmd, Len(cmd))

\* C10: for every command with balanced quotes, split_command places no
\* component boundary at an operator occurrence at an index i for which
\* _is_in_quotes(command, i) is true.
C10_QuoteSafeSplit ==
    components # "none" /\ balanced_quotes(command) =>
        \A i \in split_cuts(command) : ~is_in_quotes(command, i)

-----------------------------------------------------------------------------
(* Claims about normalize_command (SpecNormalize) *)

\* what normalize_command makes of each subcommand split_command returns
subcommand_results(cmd) ==
    LET subs == split_command(cmd) IN
    [k \in 1..Len(subs) |-> normalize_component(subs[k])]

RECURSIVE concat(_)
concat(seqs) == IF seqs = <<>> THEN <<>> ELSE Head(seqs) \o concat(Tail(seqs))

\* some redirection token starts at position i of the subcommand
redirection_token_at(rc, i) ==
    \E k \in 1..Len(redirection_operators) : slice_eq(rc, i, redirection_operators[k])

\* text is the subcommand cut at a redirection token that is outside quotes
truncated_at_unquoted(rc, text) ==
    \E i \in 0..(Len(rc) - 1) :
        /\ redirection_token_at(rc, i)
        /\ ~is_in_quotes(rc, i)
        /\ text = strip(SubSeq(rc, 1, i))

\* every redirection character of the subcommand lies inside quotes
all_redirections_quoted(rc) ==
    \A i \in 0..(Len(rc) - 1) : rc[i + 1] \in {">", "<"} => is_in_quotes(rc, i)

\* C11: normalize_command truncates a subcommand only at a redirection token
\* whose index is outside quotes according to _is_in_quotes; a subcommand
\* whose redirection characters all lie inside quotes keeps its full text and
\* has has_redirection = false.
C11_QuoteSafeRedirection ==
    normalized_components # "none" =>
        LET subs == split_command(command)
            outs == subcommand_results(command)
        IN
        /\ normalized_components = concat(outs)
        /\ \A k \in 1..Len(subs) :
              LET rc == subs[k].raw_command
                  out == outs[k]
              IN
              /\ out = <<>> => truncated_at_unquoted(rc, <<>>)
              /\ (out # <<>> /\ ~out[1].via_bash /\ out[1].command # rc) =>
                    /\ out[1].has_redirection
                    /\ truncated_at_unquoted(rc, out[1].command)
              /\ (out # <<>> /\ out[1].has_redirection /\ ~out[1].via_bash) =>
                    truncated_at_unquoted(rc, out[1].command)
              /\ all_redirections_quoted(rc) =>
                    /\ out # <<>>
                    /\ ~out[1].has_redirection
                    /\ (out[1].via_bash \/ out[1].command = rc)

\* normalize_command was given one subcommand with a quoted ">" and returned it whole
C11_Witness ==
    /\ normalized_components # "none"
    /\ contains(command, <<">">>)
    /\ all_redirections_quoted(command)
    /\ ~is_in_quotes(command, Len(command))
    /\ normalized_components =
          << [command |-> command, has_redirection |-> FALSE,
              via_bash |-> FALSE, invalid |-> FALSE] >>

\* some redirection token occurs outside quotes in the subcommand
has_unquoted_redirection(rc) ==
    \E i \in 0..(Len(rc) - 1) : redirection_token_at(rc, i) /\ ~is_in_quotes(rc, i)

\* i is the first unquoted occurrence of token t in the subcommand
first_unquoted_occurrence(rc, t, i) ==
    /\ slice_eq(rc, i, t)
    /\ ~is_in_quotes(rc, i)
    /\ \A j \in 0..(i - 1) : ~(slice_eq(rc, j, t) /\ ~is_in_quotes(rc, j))

\* text is the trimmed part of the subcommand before the first unquoted
\* occurrence of one of the redirection tokens
cut_at_first_unquoted(rc, text) ==
    \E k \in 1..Len(redirection_operators) : \E i \in 0..(Len(rc) - 1) :
        /\ first_unquoted_occurrence(rc, redirection_operators[k], i)
        /\ text = strip(SubSeq(rc, 1, i))

\* C12: for every subcommand with at least one redirection token outside
\* quotes, normalize_command returns has_redirection = true and a component
\* text that is the trimmed part of the subcommand before that token's first
\* unquoted occurrence (a subcommand cut down to nothing yields no component).
C12_RedirectionDetected ==
    normalized_components # "none" =>
        LET subs == split_command(command)
            outs == subcommand_results(command)
        IN
        \A k \in 1..Len(subs) :
            LET rc == subs[k].raw_command
                out == outs[k]
            IN
            has_unquoted_redirection(rc) =>
                IF out = <<>> THEN cut_at_first_unquoted(rc, <<>>)
                ELSE /\ out[1].has_redirection
                     /\ (out[1].via_bash \/ cut_at_first_unquoted(rc, out[1].command))

-----------------------------------------------------------------------------
(* Claims about matches_rule and filter rules (SpecMatch) *)

\* the filter is a single dash followed by letters only (command:-xyz)
short_flag_filter(rule_filter) ==
    /\ Len(rule_filter) >= 2
    /\ rule_filter[1] = "-"
    /\ \A k \in 2..Len(rule_filter) : rule_filter[k] \in Letters

\* the filter starts with neither "-" nor "--"
literal_filter(rule_filter) == rule_filter # <<>> /\ rule_filter[1] # "-"

\* the rule's command words equal, in order, the first words of the text
command_words_match(text, rule_text) ==
    is_prefix(str_split(rule_command_of(rule_text)), str_split(text))

\* C13: with an allow rule command:-f (one-word command, short-flag filter)
\* and no deny rules, permit_command returns APPROVE for 'command -f' and ASK
\* for 'command -x' where x is a letter not in the filter.
C13_ShortFlagRuleApproves ==
    LET rule_command == rule_command_of(rule_string)
        rule_filter == rule_filter_of(rule_string)
    IN
    (/\ decision # "none"
     /\ allow = <<rule_string>>
     /\ deny = <<>>
     /\ str_split(rule_command) = <<rule_command>>
     /\ short_flag_filter(rule_filter)) =>
        /\ command = rule_command \o sp \o rule_filter => decision = APPROVE
        /\ (\E x \in Letters :
               /\ \A k \in 1..Len(rule_filter) : rule_filter[k] # x
               /\ command = rule_command \o sp \o <<"-", x>>) => decision = ASK

\* the text after the rule's command words
trailing_arguments(text, rule_text) ==
    LET n == Len(str_split(rule_command_of(rule_text)))
        words == str_split(text)
    IN join_words(SubSeq(words, n + 1, Len(words)))

\* what the claim says a literal-filter rule matches
literal_rule_matches(text, rule_text) ==
    /\ command_words_match(text, rule_text)
    /\ contains(trailing_arguments(text, rule_text), rule_filter_of(rule_text))

\* C14: a rule whose filter starts with neither '-' nor '--' is a literal
\* filter: matches_rule is true when the component starts with the rule's
\* command words and its trailing argument text contains the filter, false when
\* the filter is absent; with such a rule as the only allow rule (allow
\* ['git:status']) a command it matches is approved and a command without
\* the filter ('git push') yields ASK.
C14_LiteralFilter ==
    (/\ literal_filter(rule_filter_of(rule_string))
     /\ str_split(rule_command_of(rule_string)) # <<>>) =>
        /\ pc = "matched" => matched = literal_rule_matches(command, rule_string)
        /\ (decision # "none" /\ command # <<>> /\ allow = <<rule_string>> /\ deny = <<>>) =>
              decision = IF literal_rule_matches(command, rule_string) THEN APPROVE ELSE ASK

\* C15: for a rule without filter, matches_rule(text, rule) is true exactly
\* when the rule's command part has at least one word and its words equal, in
\* order, the first words of text (whole words: rule 'l' does not match 'ls');
\* a rule whose command part has no words matches nothing.
C15_CommandWordPrefix ==
    (pc = "matched" /\ rule_filter_of(rule_string) = <<>>) =>
        matched = (/\ str_split(rule_command_of(rule_string)) # <<>>
                   /\ command_words_match(command, rule_string))

\* the letters that directly follow the leading "-" of a token
RECURSIVE letter_run(_, _)
letter_run(token, k) ==
    IF k > Len(token) \/ token[k] \notin Letters THEN <<>>
    ELSE <<token[k]>> \o letter_run(token, k + 1)

\* some token of the text is a single "-" followed by a run of letters that
\* contains the letter
flag_token_present(text, letter) ==
    \E k \in 1..Len(str_split(text)) :
        LET token == str_split(text)[k] IN
        /\ token[1] = "-"
        /\ \E j \in 1..Len(letter_run(token, 2)) : letter_run(token, 2)[j] = letter

\* C16: for a short-flag rule command:-xyz, matches_rule is true iff the
\* command words match as a prefix and, for every letter of the filter, the
\* text has a token (at the start of the text or after whitespace) that starts
\* with a single '-' followed by a run of letters containing that letter; the
\* letters may come from different tokens in any order, and a long option
\* such as --all does not satisfy -a.
C16_ShortFlagsConjunctive ==
    LET rule_command == rule_command_of(rule_string)
        rule_filter == rule_filter_of(rule_string)
    IN
    (/\ pc = "matched"
     /\ str_split(rule_command) # <<>>
     /\ short_flag_filter(rule_filter)) =>
        matched = (/\ command_words_match(command, rule_string)
                   /\ \A k \in 2..Len(rule_filter) :
                         flag_token_present(command, rule_filter[k]))

\* matches_rule found the two letters of ls:-la in two different tokens
C16_Witness ==
    /\ pc = "matched"
    /\ matched
    /\ rule_string = ls \o <<":", "-", "l", "a">>
    /\ command = ls \o sp \o <<"-", "a">> \o sp \o <<"-", "l">>

-----------------------------------------------------------------------------
(* Claims about _is_in_quotes (SpecNormalize) *)

\* one character read by a scanner that tracks the open quote ("" when no
\* quote is open) and whether the previous character was an unescaped backslash
quote_step(st, c) ==
    IF st.escaped THEN [open |-> st.open, escaped |-> FALSE]
    ELSE IF c = "\\" THEN [open |-> st.open, escaped |-> TRUE]
    ELSE IF c \in {"'", "\""}
    THEN [open |-> IF st.open = "" THEN c ELSE IF st.open = c THEN "" ELSE st.open,
          escaped |-> FALSE]
    ELSE [open |-> st.open, escaped |-> FALSE]

\* the open-quote state after scanning exactly the given prefix
RECURSIVE quote_state(_)
quote_state(prefix) ==
    IF prefix = <<>> THEN [open |-> "", escaped |-> FALSE]
    ELSE quote_step(quote_state(SubSeq(prefix, 1, Len(prefix) - 1)), prefix[Len(prefix)])

\* C17: _is_in_quotes(s, pos) equals the open-quote state after scanning
\* exactly s[0:pos]: an opening quote's own position reports false and a
\* closing quote's own position reports true; a quote after an unescaped
\* backslash never toggles the state, and a quote of the other kind inside an
\* open quote never toggles it.
C17_QuoteTracker ==
    pc = "quotes_checked" =>
        LET n == IF pos < Len(command) THEN pos ELSE Len(command)
            before == quote_state(SubSeq(command, 1, n))
        IN
        /\ in_quotes = (before.open # "")
        /\ (pos < Len(command) /\ command[pos + 1] \in {"'", "\""}) =>
              LET after == is_in_quotes(command, pos + 1) IN
              /\ (~before.escaped /\ before.open = "") => (~in_quotes /\ after)
              /\ (~before.escaped /\ before.open = command[pos + 1]) =>
                    (in_quotes /\ ~after)
              /\ before.escaped => after = in_quotes
              /\ (~before.escaped /\ before.open \notin {"", command[pos + 1]}) =>
                    (in_quotes /\ after)

\* _is_in_quotes was asked about the position of a closing double quote
C17_Witness ==
    /\ pc = "quotes_checked"
    /\ pos < Len(command)
    /\ command[pos + 1] = "\""
    /\ in_quotes
    /\ ~is_in_quotes(command, pos + 1)

-----------------------------------------------------------------------------
(* Claims about the operators split_command records (SpecSplit) *)

-----------------------------------------------------------------------------
(* Claims about the approval cache (SpecCache) *)

single_component(cmd) == Len(utils_normalize_command(cmd)) = 1

\* two single-component commands with the same base command and different
\* argument lists
same_base_other_args(cmd, other) ==
    /\ single_component(cmd)
    /\ single_component(other)
    /\ utils_normalize_command(cmd)[1].command = utils_normalize_command(other)[1].command
    /\ utils_normalize_command(cmd)[1].args # utils_normalize_command(other)[1].args

\* C19: after approve_command(c) for a single-component command c,
\* validate_command(c) returns EXECUTE, and the decision for every command
\* with the same base command but a different argument list is the same as
\* it was before the approval.
C19_CacheConsistency ==
    [][ (pc' = "approved" /\ ncalls' = ncalls + 1 /\ single_component(command')) =>
            /\ validate_command(permissions', command') = EXECUTE
            /\ \A other \in CacheCommands :
                  same_base_other_args(command', other) =>
                      validate_command(permissions', other)
                          = validate_command(permissions, other) ]_vars

\* 'base:args' when the command has arguments and 'base' otherwise
rule_for(cmd) ==
    LET component == utils_normalize_command(cmd)[1] IN
    IF component.args # <<>>
    THEN component.command \o <<":">> \o join_words(component.args)
    ELSE component.command

\* rules is before with the rule appended, or before when it already had it
rule_persisted(before, rules, new_rule) ==
    /\ \E k \in 1..Len(rules) : rules[k] = new_rule
    /\ rules = before \/ rules = Append(before, new_rule)

\* C20: after approve_command(c, always=True) for a single-component command
\* c, a new CommandPermissions built from the resulting allow and deny lists
\* with an empty cache evaluates c to EXECUTE; after deny_command(c,
\* always=True) such a new instance evaluates c to DENY; the appended rule is
\* 'base:args' when c has arguments and 'base' otherwise.
C20_PersistenceHonoured ==
    [][ /\ (pc' = "approved_always" /\ ncalls' = ncalls + 1 /\ single_component(command')) =>
               rule_persisted(allow, allow', rule_for(command'))
        /\ (pc' = "denied_always" /\ ncalls' = ncalls + 1 /\ single_component(command')) =>
               rule_persisted(deny, deny', rule_for(command'))
        /\ (pc = "approved_always" /\ pc' = "new" /\ single_component(command)) =>
               validate_command(permissions', command) = EXECUTE
        /\ (pc = "denied_always" /\ pc' = "new" /\ single_component(command)) =>
               validate_command(permissions', command) = DENY ]_vars

-----------------------------------------------------------------------------
(* Claims about evaluation and answers in one session (SpecSession) *)

\* the fields of the permissions object that persist: the two rule lists and
\* the policy for unspecified commands
rule_fields == <<allow, deny, ask_if_unspecified>>

keys_of(cmd) ==
    LET comps == utils_normalize_command(cmd) IN
    { command_key(comps[k].command, join_words(comps[k].args)) :
        k \in { n \in 1..Len(comps) : comps[n].command # <<>> } }

\* commands of one component
SingleCommands == { ls, cat \o sp \o <<"a">> }

answered_yes == pc \in {"approved", "approved_always"}
answered_no == pc \in {"denied", "denied_always"}

\* C24: the cache decides before any rule and the latest answer wins.  For a
\* command c of one component: after a step of approve_command that sets the
\* key of c, validate_command(c) is EXECUTE; after a step of deny_command
\* that sets it, DENY; and once the key is set, every step that does not set
\* it again leaves validate_command(c) as it was, whatever rules the step
\* adds and whatever the allow and deny lists say.
C24_LatestAnswerWins ==
    [][ \A c \in SingleCommands :
          LET sets_key == (answered_yes' \/ answered_no') /\ keys_of(c) \subseteq keys_of(command') IN
          /\ (answered_yes' /\ sets_key) => validate_command(permissions', c) = EXECUTE
          /\ (answered_no' /\ sets_key) => validate_command(permissions', c) = DENY
          /\ (keys_of(c) \subseteq DOMAIN approved_commands /\ ~sets_key) =>
                validate_command(permissions', c) = validate_command(permissions, c)
      ]_vars

\* 'cat a' was approved for always under an allow rule for cat, then denied:
\* both the allow list and the persisted rule say EXECUTE, the cache says no
C24_Witness ==
    /\ answered_no
    /\ command = cat \o sp \o <<"a">>
    /\ allow = <<cat, cat \o <<":", "a">> >>
    /\ validate_command(permissions, command) = DENY

-----------------------------------------------------------------------------
(* Claims about the approval of compound commands (SpecCompound) *)

\* the text of each component of a compound command
component_texts(cmd) ==
    LET comps == split_command(cmd) IN
    { comps[k].raw_command : k \in 1..Len(comps) }

\* d is cmd with the arguments of its component j replaced by other ones
differs_at(d, cmd, j) ==
    LET a == utils_normalize_command(cmd)
        b == utils_normalize_command(d)
    IN
    /\ Len(a) = Len(b)
    /\ j \in 1..Len(a)
    /\ \A k \in 1..Len(a) : a[k].command = b[k].command
    /\ \A k \in (1..Len(a)) \ {j} : a[k].args = b[k].args
    /\ a[j].args # b[j].args

\* the cache key of component j of d
key_at(d, j) ==
    LET b == utils_normalize_command(d) IN
    command_key(b[j].command, join_words(b[j].args))

\* C25: a step of approve_command on a compound command records every
\* component: after it each component alone and the compound itself
\* evaluate to EXECUTE; a compound command that differs from it in the
\* arguments of one component gets no cache entry for that component from
\* the step; and after approving bash -c "<script>" the script evaluates to
\* EXECUTE.
C25_CompoundApproval ==
    [][ answered_yes' /\ ncalls' = ncalls + 1 =>
          /\ validate_command(permissions', command') = EXECUTE
          /\ \A script \in Scripts :
                command' = bash_c(script) => validate_command(permissions', script) = EXECUTE
          /\ command' \notin { bash_c(script) : script \in Scripts } =>
                \A text \in component_texts(command') :
                    validate_command(permissions', text) = EXECUTE
          /\ \A d \in CompoundCommands, j \in 1..MaxComponents :
                (differs_at(d, command', j) /\ key_at(d, j) \notin DOMAIN approved_commands)
                    => key_at(d, j) \notin DOMAIN approved_commands'
      ]_vars

-----------------------------------------------------------------------------
(* Claims about what the shell runs and permit_command decides (SpecShell) *)

\* the first shell word of a text after quote removal and unescaping;
\* <<>> when the text has no word or its quotes do not balance
first_shell_word(text) ==
    LET parsed == shlex_split(text) IN
    IF parsed.ok /\ parsed.tokens # <<>> THEN parsed.tokens[1] ELSE <<>>

\* a deny rule of one word without filter
one_word_rule(rule) ==
    /\ ~contains(rule, <<":">>)
    /\ str_split(rule) = <<rule>>

\* C27: the deny decision does not depend on how the base command is
\* quoted: if the first shell word of a component, after quote removal and
\* backslash unescaping, equals a one-word deny rule, permit_command
\* returns DENY.
C27_QuotingDoesNotHideDeny ==
    decision # "none" =>
        LET comps == normalize_command(command) IN
        (\E k \in 1..Len(comps), d \in 1..Len(deny) :
            /\ ~comps[k].invalid
            /\ one_word_rule(deny[d])
            /\ first_shell_word(comps[k].command) = deny[d])
        => decision = DENY

\* the separators the shell honours between two commands outside quotes
ShellSeparators ==
    { <<"|">>, <<"&", "&">>, <<"|", "|">>, <<";">>, <<"&">>, <<"\n">> }
separator_characters == {"|", "&", ";", "\n"}

\* the texts B such that the command is A, a separator outside quotes, B,
\* where A is a command without separator
after_separator(cmd) ==
    { SubSeq(cmd, cut[1] + Len(cut[2]), Len(cmd)) :
        cut \in { c \in (2..Len(cmd)) \X ShellSeparators :
                    /\ slice_eq(cmd, c[1] - 1, c[2])
                    /\ ~is_in_quotes(cmd, c[1] - 1)
                    /\ strip(SubSeq(cmd, 1, c[1] - 1)) # <<>>
                    /\ \A n \in 1..(c[1] - 1) : cmd[n] \notin separator_characters } }

\* C28: a denied command cannot be hidden behind a separator: if the command
\* is A, a separator the shell honours outside quotes (|, &&, ||, ;, a
\* single &, a newline) and B, and permit_command(B) is DENY, then
\* permit_command of the command is DENY.
C28_SeparatorDoesNotHideDeny ==
    decision # "none" =>
        ((\E b \in after_separator(command) :
              ~is_blank(b) /\ permit_command(self, b) = DENY)
         => decision = DENY)

-----------------------------------------------------------------------------
(* Claims about the older validators (SpecLegacy) *)

\* C29: both older validators return DENY whenever the base command of the
\* command is in the deny list, also when it is in the allow list too;
\* otherwise EXECUTE if it is in the allow list, else ASK or DENY according
\* to ask_if_unspecified.
C29_LegacyDenyFirst ==
    pc \in {"utils_validated", "executor_validated"} =>
        verdict = IF in_list(base_command_of(command), deny) THEN DENY
                  ELSE IF in_list(base_command_of(command), allow) THEN EXECUTE
                  ELSE IF ask_if_unspecified THEN ASK
                  ELSE DENY

-----------------------------------------------------------------------------
(* Claims about normalizing a normalized component (SpecNormalize) *)

\* C30: normalization is idempotent on its own output: for every component
\* that normalize_command produces with via_bash = false and invalid =
\* false, normalize_command of the text of the component returns exactly one
\* component, with the same text, has_redirection = false, via_bash = false
\* and invalid = false.
C30_NormalizeIdempotent ==
    pc = "normalized" =>
        \A k \in 1..Len(normalized_components) :
            LET component == normalized_components[k] IN
            (~component.via_bash /\ ~component.invalid) =>
                normalize_command(component.command) =
                    << [command |-> component.command, has_redirection |-> FALSE,
                        via_bash |-> FALSE, invalid |-> FALSE] >>

-----------------------------------------------------------------------------
(* Claims about the result of an authorised execution (Spec) *)

\* the call in progress was authorised: approved by the rules, auto-approved
\* or approved at the prompt
authorised ==
    \/ action = APPROVE
    \/ action = ASK /\ (auto_approve \/ answer = "yes")

\* C22: when execution is authorised, the result of execute_command reports
\* the child's exit code, success exactly when that code is 0, and as error
\* the stderr text exactly when stderr is not empty and the code is not 0;
\* when spawning or waiting raised, the result is exit_code 1, success
\* false, empty output and the exception text; no exception reaches the
\* caller of an authorised call.
C22_ResultReportsChild ==
    /\ (pc = "returned" /\ authorised /\ child = "exited") =>
          /\ result.exit_code = process.returncode
          /\ result.success = (process.returncode = 0)
          /\ result.error = IF process.stderr # <<>> /\ process.returncode # 0
                            THEN decode(process.stderr) ELSE "None"
    /\ (pc = "returned" /\ authorised /\ child # "exited") =>
          /\ result.exit_code = 1
          /\ ~result.success
          /\ result.output = ""
          /\ result.error \in ExceptionTexts
    /\ (pc = "raised" => ~authorised)

\* C26: auto_approve affects only the ASK branch.  A command that
\* permit_command denies is never spawned, with auto_approve or without; the
\* confirmation prompt is shown at most once in a call, only when the
\* decision is ASK and auto_approve is false, never for an approved command,
\* and it has been shown and answered yes before the child of such a call
\* is spawned.
C26_AutoApproveOnlyForAsk ==
    /\ (action = DENY => child = "none" /\ pc \in {"returned", "idle"})
    /\ prompts <= 1
    /\ (prompts = 1 => action = ASK /\ ~auto_approve)
    /\ (pc = "confirm" => prompts = 1 /\ child = "none")
    /\ ((action = ASK /\ ~auto_approve /\ (pc \in {"spawn", "communicate"} \/ child # "none"))
            => prompts = 1 /\ answer = "yes")
    /\ ((action = ASK /\ auto_approve) => prompts = 0 /\ answer = "none")

\* a denied command was given with auto_approve and the call has returned
C26_Witness ==
    /\ action = DENY
    /\ auto_approve
    /\ pc = "returned"
    /\ result = denied_result

-----------------------------------------------------------------------------
(* Claims about the calls of one agent run (SpecAgent) *)

\* the calls whose child has been spawned and has not terminated
running_children == { i \in 1..Len(tasks) : tasks[i].child = "running" }

\* C23: on one CommandExecutor at most one spawned child is running at any
\* time, also when the agent issues a tool call while an earlier one is
\* still awaiting its child.
C23_OneChildAtATime == Cardinality(running_children) <= 1

====
